---------------------------- MODULE Spec2Model ----------------------------
(***************************************************************************)
(* MIDI-Cube: the MIDI 1.0 byte-stream parser (midi_parser.c) and the      *)
(* router's dispatcher (midi_router.c), as state machines.                 *)
(*                                                                         *)
(* ParserSpec feeds bytes, one per step, to one parser instance the way    *)
(* the UART receive task does: the same midi_message_t and the same        *)
(* message_complete flag are handed to every midi_parser_parse_byte call.  *)
(* RouterSpec runs the producers' midi_router_send against the router      *)
(* task's dequeue / filter / per-destination loop.                         *)
(***************************************************************************)
EXTENDS Integers, Sequences, FiniteSets, TLC

(***************************************************************************)
(* Bounds of the model.                                                    *)
(***************************************************************************)
\* calls of midi_parser_parse_byte in one behaviour
MaxBytes == 5
\* largest sysex_buffer_size handed to midi_parser_init
MaxSysexSize == 2

(***************************************************************************)
(* midi_defs.h                                                             *)
(***************************************************************************)
MIDI_STATUS_NOTE_OFF == 128
MIDI_STATUS_PROGRAM_CHANGE == 192
MIDI_STATUS_CHANNEL_PRESSURE == 208
MIDI_STATUS_SYSEX_START == 240
MIDI_STATUS_MTC_QUARTER_FRAME == 241
MIDI_STATUS_SONG_POSITION == 242
MIDI_STATUS_SONG_SELECT == 243
MIDI_STATUS_UNDEFINED_F4 == 244
MIDI_STATUS_UNDEFINED_F5 == 245
MIDI_STATUS_TUNE_REQUEST == 246
MIDI_STATUS_SYSEX_END == 247
MIDI_STATUS_TIMING_CLOCK == 248
MIDI_STATUS_UNDEFINED_F9 == 249
MIDI_STATUS_UNDEFINED_FD == 253
MIDI_STATUS_ACTIVE_SENSING == 254
MIDI_STATUS_BIT_MASK == 128
MIDI_CHANNEL_MASK == 15
MIDI_STATUS_TYPE_MASK == 240

\* byte & MIDI_STATUS_TYPE_MASK, byte & MIDI_CHANNEL_MASK, byte & MIDI_STATUS_BIT_MASK
\* on a uint8_t
StatusType(byte) == byte - (byte % (MIDI_CHANNEL_MASK + 1))
ChannelOf(byte) == byte % (MIDI_CHANNEL_MASK + 1)
StatusBit(byte) == IF byte >= MIDI_STATUS_BIT_MASK THEN MIDI_STATUS_BIT_MASK ELSE 0

(***************************************************************************)
(* midi_parser.h: the byte classifiers                                     *)
(***************************************************************************)
midi_is_status_byte(byte) == StatusBit(byte) # 0

midi_is_data_byte(byte) == StatusBit(byte) = 0

midi_is_realtime_message(status) == status >= MIDI_STATUS_TIMING_CLOCK

midi_is_system_common_message(status) ==
    status >= MIDI_STATUS_SYSEX_START /\ status <= MIDI_STATUS_SYSEX_END

midi_is_channel_message(status) ==
    status >= MIDI_STATUS_NOTE_OFF /\ status < MIDI_STATUS_SYSEX_START

(***************************************************************************)
(* midi_parser.c: midi_get_data_byte_count                                 *)
(***************************************************************************)
midi_get_data_byte_count(status) ==
    IF midi_is_channel_message(status)
    THEN IF StatusType(status) \in {MIDI_STATUS_PROGRAM_CHANGE, MIDI_STATUS_CHANNEL_PRESSURE}
         THEN 1
         ELSE 2
    ELSE IF midi_is_system_common_message(status)
    THEN IF status \in {MIDI_STATUS_MTC_QUARTER_FRAME, MIDI_STATUS_SONG_SELECT} THEN 1
         ELSE IF status = MIDI_STATUS_SONG_POSITION THEN 2
         ELSE 0
    ELSE 0

(***************************************************************************)
(* The parser's state, the caller's message structure and the caller's     *)
(* SysEx storage.                                                          *)
(*                                                                         *)
(* mem is the caller's memory at sysex_buffer: cells 0..size-1 are the     *)
(* buffer, the cells after them are the caller's other memory.  A cell     *)
(* holds Unwritten until the parser stores a byte in it.  fault records a  *)
(* store through a null pointer or past the last cell.                     *)
(*                                                                         *)
(* midi_message_t (midi_types.h): data.bytes[2] and data.sysex share a     *)
(* union, but bytes[0..1] lie at offsets 0..1 and sysex.data / .length     *)
(* after the pointer's alignment padding, so a store to one never changes  *)
(* the other: they are separate fields here.                               *)
(***************************************************************************)
Unwritten == -1

MemCells == MaxSysexSize + 2

Pointers == {"NULL", "BUF"}

\* midi_parser_init: memset to 0, then the buffer pointer and its size
ParserInitState(sysex_buffer, sysex_buffer_size) ==
    [running_status |-> 0,
     data_bytes |-> <<0, 0>>,
     data_index |-> 0,
     expected_data_bytes |-> 0,
     in_sysex |-> FALSE,
     sysex_buffer |-> sysex_buffer,
     sysex_index |-> 0,
     sysex_buffer_size |-> sysex_buffer_size,
     messages_parsed |-> 0,
     parse_errors |-> 0]

\* midi_parser_reset
ParserResetState(st) ==
    [st EXCEPT !.running_status = 0,
               !.data_index = 0,
               !.expected_data_bytes = 0,
               !.in_sysex = FALSE,
               !.sysex_index = 0]

InitMem == [cells |-> [i \in 0..(MemCells - 1) |-> Unwritten], fault |-> FALSE]

\* sysex_buffer[index] = byte
StoreByte(st, mem, index, byte) ==
    IF st.sysex_buffer = "NULL" \/ index \notin DOMAIN mem.cells
    THEN [mem EXCEPT !.fault = TRUE]
    ELSE [mem EXCEPT !.cells[index] = byte]

\* `midi_message_t msg;` on the caller's stack: never initialised, so every
\* field starts with whatever the stack held
MsgTypes == {"CHANNEL", "SYSTEM_COMMON", "SYSTEM_REALTIME", "SYSTEM_EXCLUSIVE", "UNKNOWN"}

StackGarbage ==
    { [type |-> "CHANNEL", status |-> 0, channel |-> 0, bytes |-> <<0, 0>>,
       sysex_data |-> "NULL", sysex_length |-> 0],
      [type |-> "UNKNOWN", status |-> 165, channel |-> 165, bytes |-> <<165, 165>>,
       sysex_data |-> "BUF", sysex_length |-> 165] }

Result(st, m, mem, done) == [p |-> st, msg |-> m, mem |-> mem, complete |-> done]

(***************************************************************************)
(* midi_parser_parse_byte, branch by branch                                *)
(***************************************************************************)
\* mutant: a real-time byte also drops the running status
ParseRealtime_ClearsRunning(st, byte, m, mem) ==
    Result([st EXCEPT !.messages_parsed = @ + 1, !.running_status = 0],
           [m EXCEPT !.type = "SYSTEM_REALTIME", !.status = byte],
           mem, TRUE)

\* System Real-Time (0xF8-0xFF)
ParseRealtime(st, byte, m, mem) ==
    Result([st EXCEPT !.messages_parsed = @ + 1],
           [m EXCEPT !.type = "SYSTEM_REALTIME", !.status = byte],
           mem, TRUE)

\* System Exclusive Start (0xF0)
ParseSysexStart(st, byte, m, mem) ==
    Result([st EXCEPT !.in_sysex = TRUE, !.sysex_index = 0, !.running_status = 0],
           m, mem, FALSE)

\* mutant: 0xF7 emits a SysEx message whether or not a SysEx is open
ParseSysexEnd_Unguarded(st, byte, m, mem) ==
    Result([st EXCEPT !.in_sysex = FALSE, !.messages_parsed = @ + 1],
           [m EXCEPT !.type = "SYSTEM_EXCLUSIVE",
                     !.status = MIDI_STATUS_SYSEX_START,
                     !.sysex_data = st.sysex_buffer,
                     !.sysex_length = st.sysex_index],
           mem, TRUE)

\* System Exclusive End (0xF7)
ParseSysexEnd(st, byte, m, mem) ==
    IF st.in_sysex
    THEN Result([st EXCEPT !.in_sysex = FALSE, !.messages_parsed = @ + 1],
                [m EXCEPT !.type = "SYSTEM_EXCLUSIVE",
                          !.status = MIDI_STATUS_SYSEX_START,
                          !.sysex_data = st.sysex_buffer,
                          !.sysex_length = st.sysex_index],
                mem, TRUE)
    ELSE Result(st, m, mem, FALSE)

\* System Common (0xF1-0xF6)
ParseSystemCommon(st, byte, m, mem) ==
    LET n == midi_get_data_byte_count(byte)
        s1 == [st EXCEPT !.in_sysex = FALSE,
                         !.running_status = 0,
                         !.data_index = 0,
                         !.expected_data_bytes = n]
        m1 == [m EXCEPT !.type = "SYSTEM_COMMON", !.status = byte]
    IN  IF n = 0
        THEN Result([s1 EXCEPT !.messages_parsed = @ + 1], m1, mem, TRUE)
        ELSE Result(s1, m1, mem, FALSE)

\* Channel Voice / Mode status (0x80-0xEF)
ParseChannelStatus(st, byte, m, mem) ==
    Result([st EXCEPT !.in_sysex = FALSE,
                      !.running_status = byte,
                      !.data_index = 0,
                      !.expected_data_bytes = midi_get_data_byte_count(byte)],
           [m EXCEPT !.type = "CHANNEL", !.status = byte, !.channel = ChannelOf(byte)],
           mem, FALSE)

\* the fall-through after the three status classes
ParseUndefinedStatus(st, byte, m, mem) ==
    Result([st EXCEPT !.parse_errors = @ + 1], m, mem, FALSE)

\* mutant: the capacity test is off by one (<= for <)
ParseSysexData_OffByOne(st, byte, m, mem) ==
    IF st.sysex_buffer # "NULL" /\ st.sysex_index <= st.sysex_buffer_size
    THEN Result([st EXCEPT !.sysex_index = @ + 1], m,
                StoreByte(st, mem, st.sysex_index, byte), FALSE)
    ELSE IF st.sysex_buffer = "NULL"
    THEN Result(st, m, mem, FALSE)
    ELSE Result([st EXCEPT !.parse_errors = @ + 1], m, mem, FALSE)

\* a data byte while in_sysex
ParseSysexData(st, byte, m, mem) ==
    IF st.sysex_buffer # "NULL" /\ st.sysex_index < st.sysex_buffer_size
    THEN Result([st EXCEPT !.sysex_index = @ + 1], m,
                StoreByte(st, mem, st.sysex_index, byte), FALSE)
    ELSE IF st.sysex_buffer = "NULL"
    THEN Result(st, m, mem, FALSE)
    ELSE Result([st EXCEPT !.parse_errors = @ + 1], m, mem, FALSE)

\* mutant: a completed message leaves data_index where it was
ParseData_NoRearm(st, byte, m, mem) ==
    IF st.running_status = 0 /\ st.expected_data_bytes = 0
    THEN Result(st, m, mem, FALSE)
    ELSE LET s1 == IF st.data_index < 2
                   THEN [st EXCEPT !.data_bytes[st.data_index + 1] = byte,
                                   !.data_index = @ + 1]
                   ELSE st
         IN  IF s1.data_index >= s1.expected_data_bytes
             THEN Result([s1 EXCEPT !.messages_parsed = @ + 1],
                         [m EXCEPT !.status = s1.running_status,
                                   !.channel = ChannelOf(s1.running_status),
                                   !.bytes = << IF s1.expected_data_bytes >= 1
                                                THEN s1.data_bytes[1] ELSE 0,
                                                IF s1.expected_data_bytes >= 2
                                                THEN s1.data_bytes[2] ELSE 0 >>],
                         mem, TRUE)
             ELSE Result(s1, m, mem, FALSE)

\* a data byte outside SysEx: drop, or collect and complete
ParseData(st, byte, m, mem) ==
    IF st.running_status = 0 /\ st.expected_data_bytes = 0
    THEN Result(st, m, mem, FALSE)
    ELSE LET s1 == IF st.data_index < 2
                   THEN [st EXCEPT !.data_bytes[st.data_index + 1] = byte,
                                   !.data_index = @ + 1]
                   ELSE st
         IN  IF s1.data_index >= s1.expected_data_bytes
             THEN Result([s1 EXCEPT !.messages_parsed = @ + 1, !.data_index = 0],
                         [m EXCEPT !.status = s1.running_status,
                                   !.channel = ChannelOf(s1.running_status),
                                   !.bytes = << IF s1.expected_data_bytes >= 1
                                                THEN s1.data_bytes[1] ELSE 0,
                                                IF s1.expected_data_bytes >= 2
                                                THEN s1.data_bytes[2] ELSE 0 >>],
                         mem, TRUE)
             ELSE Result(s1, m, mem, FALSE)

midi_parser_parse_byte(st, byte, m, mem) ==
    IF midi_is_realtime_message(byte) THEN ParseRealtime(st, byte, m, mem)
    ELSE IF midi_is_status_byte(byte)
    THEN IF byte = MIDI_STATUS_SYSEX_START THEN ParseSysexStart(st, byte, m, mem)
         ELSE IF byte = MIDI_STATUS_SYSEX_END THEN ParseSysexEnd(st, byte, m, mem)
         ELSE IF midi_is_system_common_message(byte) THEN ParseSystemCommon(st, byte, m, mem)
         ELSE IF midi_is_channel_message(byte) THEN ParseChannelStatus(st, byte, m, mem)
         ELSE ParseUndefinedStatus(st, byte, m, mem)
    ELSE IF st.in_sysex THEN ParseSysexData(st, byte, m, mem)
    ELSE ParseData(st, byte, m, mem)


\* midi_message.c: the length of a message, from its status byte
get_message_length(status) ==
    IF status >= 248 THEN 1
    ELSE IF status >= 240
    THEN IF status = 240 \/ status = 247 THEN 0
         ELSE IF status = 241 \/ status = 243 THEN 2
         ELSE IF status = 242 THEN 3
         ELSE 1
    ELSE IF StatusType(status) \in {128, 144, 160, 176, 224} THEN 3
    ELSE IF StatusType(status) \in {192, 208} THEN 2
    ELSE 1

\* midi_message_to_bytes into a buffer that is large enough: the bytes written
midi_message_to_bytes(m, mem) ==
    IF m.type = "SYSTEM_EXCLUSIVE"
    THEN <<240>>
         \o [i \in 1..m.sysex_length |->
                IF m.sysex_data # "NULL" THEN mem.cells[i - 1] ELSE Unwritten]
         \o <<247>>
    ELSE LET msg_length == get_message_length(m.status)
         IN  SubSeq(<<m.status, m.bytes[1], m.bytes[2]>>, 1, msg_length)

(***************************************************************************)
(* The byte stream as the specification classifies it (section 4.1's       *)
(* table), independent of the code above.  The history variables below     *)
(* are driven by these, never by the parser's own fields.                  *)
(***************************************************************************)
SpecRealTime(b) == b \in 248..255

SpecData(b) == b \in 0..127

SpecChannelStatus(b) == b \in 128..239

SpecSystemCommon(b) == b \in 241..246

SpecDataCount(status) ==
    IF status \in 192..223 THEN 1
    ELSE IF status \in 128..239 THEN 2
    ELSE IF status \in {241, 243} THEN 1
    ELSE IF status = 242 THEN 2
    ELSE 0

SpecUndefined == {244, 245, 249, 253}

(***************************************************************************)
(* The router: midi_router.c with the translator and the UMP builder it    *)
(* calls.  A 32-bit UMP word is kept as its two 16-bit halves.             *)
(***************************************************************************)
\* midi_router_send and midi_router_register_transport_tx calls in one
\* behaviour, taken together
MaxCalls == 3
\* capacity of the packet queue (64 in the source, shortened here)
ROUTER_QUEUE_SIZE == 2

MIDI_TRANSPORT_UART == 0
MIDI_TRANSPORT_USB == 1
MIDI_TRANSPORT_ETHERNET == 2
MIDI_TRANSPORT_WIFI == 3
MIDI_TRANSPORT_COUNT == 4
MIDI_STATUS_NOTE_ON == 144
UMP_MT_MIDI1_CHANNEL_VOICE == 2
UMP_MT_MIDI2_CHANNEL_VOICE == 4

Transports == 0..(MIDI_TRANSPORT_COUNT - 1)

Word(hi, lo) == [hi |-> hi, lo |-> lo]

RECURSIVE BitOr(_, _)
BitOr(a, b) ==
    IF a = 0 THEN b
    ELSE IF b = 0 THEN a
    ELSE (IF a % 2 = 1 \/ b % 2 = 1 THEN 1 ELSE 0) + 2 * BitOr(a \div 2, b \div 2)

\* the members of midi_message_t the translator and the router touch
NoMidi1 == [status |-> 0, channel |-> 0, data1 |-> 0, data2 |-> 0, length |-> 0]

NoUmp == [words |-> <<Word(0, 0), Word(0, 0)>>, num_words |-> 0,
          message_type |-> 0, group |-> 0]

midi_upscale_7to16(value7) ==
    IF value7 = 0 THEN 0
    ELSE IF value7 = 64 THEN 32768
    ELSE IF value7 >= 127 THEN 65535
    ELSE IF value7 < 64 THEN ((value7 * 32767) \div 63) % 65536
    ELSE (32768 + (((value7 - 64) * 32767) \div 63)) % 65536

\* the downscaling with a shift of 8 in place of 9
midi_downscale_16to7_Shift8(value16) == (value16 \div 256) % 256

midi_downscale_16to7(value16) == (value16 \div 512) % 256

\* the builder without its validation of group, channel and note
ump_build_midi2_note_on_NoCheck(group, channel, note, velocity16, attr_type, attr_data) ==
    [err |-> "ESP_OK",
     ump |-> [words |-> << Word(UMP_MT_MIDI2_CHANNEL_VOICE * 4096
                                  + (group % 16) * 256
                                  + BitOr(MIDI_STATUS_NOTE_ON, channel % 16),
                                (note * 256) % 65536),
                           Word(velocity16,
                                BitOr((attr_type * 256) % 65536, attr_data)) >>,
              num_words |-> 2,
              message_type |-> UMP_MT_MIDI2_CHANNEL_VOICE,
              group |-> group]]

ump_build_midi2_note_on(group, channel, note, velocity16, attr_type, attr_data) ==
    IF group > 15 \/ channel > 15 \/ note > 127
    THEN [err |-> "ESP_ERR_INVALID_ARG", ump |-> NoUmp]
    ELSE [err |-> "ESP_OK",
          ump |-> [words |-> << Word(UMP_MT_MIDI2_CHANNEL_VOICE * 4096
                                       + (group % 16) * 256
                                       + BitOr(MIDI_STATUS_NOTE_ON, channel % 16),
                                     note * 256),
                                Word(velocity16,
                                     BitOr((attr_type * 256) % 65536, attr_data)) >>,
                   num_words |-> 2,
                   message_type |-> UMP_MT_MIDI2_CHANNEL_VOICE,
                   group |-> group]]

\* the translation with the 7-bit velocity passed on as it is
midi_translate_1to2_RawVelocity(m) ==
    IF StatusType(m.status) = MIDI_STATUS_NOTE_ON
    THEN ump_build_midi2_note_on(0, m.channel, m.data1, m.data2, 0, 0)
    ELSE [err |-> "ESP_ERR_NOT_SUPPORTED", ump |-> NoUmp]

\* only Note On is translated
midi_translate_1to2(m) ==
    IF StatusType(m.status) = MIDI_STATUS_NOTE_ON
    THEN ump_build_midi2_note_on(0, m.channel, m.data1,
                                 midi_upscale_7to16(m.data2), 0, 0)
    ELSE [err |-> "ESP_ERR_NOT_SUPPORTED", ump |-> NoUmp]

\* every MIDI 2.0 Channel Voice packet comes out as a Note On; channel and note
\* are both read from bits 8.. of word 0
midi_translate_2to1(u) ==
    IF u.message_type = UMP_MT_MIDI2_CHANNEL_VOICE
    THEN LET channel == (u.words[1].lo \div 256) % 16
             note == (u.words[1].lo \div 256) % 256
             velocity7 == midi_downscale_16to7(u.words[2].hi)
         IN  [err |-> "ESP_OK",
              midi1 |-> [status |-> BitOr(MIDI_STATUS_NOTE_ON, channel),
                         channel |-> channel, data1 |-> note,
                         data2 |-> velocity7, length |-> 3]]
    ELSE [err |-> "ESP_ERR_NOT_SUPPORTED", midi1 |-> NoMidi1]

\* channel_mask is kept as the set of channels whose bit is set
midi_router_check_filter(packet, filter) ==
    IF ~filter.enabled THEN TRUE
    ELSE IF packet.format = 0
    THEN IF packet.midi1.status < 240
            /\ packet.midi1.channel \notin filter.channel_mask
         THEN FALSE
         ELSE IF filter.block_active_sensing
                 /\ packet.midi1.status = MIDI_STATUS_ACTIVE_SENSING
         THEN FALSE
         ELSE IF filter.block_clock /\ packet.midi1.status = MIDI_STATUS_TIMING_CLOCK
         THEN FALSE
         ELSE TRUE
    ELSE TRUE

midi_router_translate(cfg, st, packet, dest_wants_ump) ==
    IF ~cfg.auto_translate
    THEN [err |-> "ESP_OK", packet |-> packet, stats |-> st]
    ELSE IF packet.format = 0 /\ dest_wants_ump
    THEN LET r == midi_translate_1to2(packet.midi1)
         IN  IF r.err = "ESP_OK"
             THEN [err |-> r.err,
                   packet |-> [packet EXCEPT !.format = 1, !.ump = r.ump,
                                             !.midi1 = NoMidi1],
                   stats |-> [st EXCEPT !.translations_1to2 = @ + 1]]
             ELSE [err |-> r.err, packet |-> packet, stats |-> st]
    ELSE IF packet.format # 0 /\ ~dest_wants_ump
    THEN LET r == midi_translate_2to1(packet.ump)
         IN  IF r.err = "ESP_OK"
             THEN [err |-> r.err,
                   packet |-> [packet EXCEPT !.format = 0, !.midi1 = r.midi1,
                                             !.ump = NoUmp],
                   stats |-> [st EXCEPT !.translations_2to1 = @ + 1]]
             ELSE [err |-> r.err, packet |-> packet, stats |-> st]
    ELSE [err |-> "ESP_OK", packet |-> packet, stats |-> st]

\* dest_wants_ump of the dispatch loop
DestWantsUmp(d) ==
    d = MIDI_TRANSPORT_ETHERNET \/ d = MIDI_TRANSPORT_WIFI \/ d = MIDI_TRANSPORT_USB

ZeroStats ==
    [packets_routed |-> [s \in Transports |-> [d \in Transports |-> 0]],
     packets_dropped |-> [t \in Transports |-> 0],
     packets_filtered |-> [t \in Transports |-> 0],
     translations_1to2 |-> 0,
     translations_2to1 |-> 0,
     routing_errors |-> 0]

FilterOff ==
    [enabled |-> FALSE, channel_mask |-> {}, block_active_sensing |-> FALSE,
     block_clock |-> FALSE]

\* lets channel 2 pass, blocks Active Sensing and Timing Clock
FilterCh2 ==
    [enabled |-> TRUE, channel_mask |-> {2}, block_active_sensing |-> TRUE,
     block_clock |-> TRUE]

ZeroConfig ==
    [routing_matrix |-> [s \in Transports |-> [d \in Transports |-> FALSE]],
     input_filters |-> [t \in Transports |-> FilterOff],
     auto_translate |-> FALSE,
     merge_inputs |-> FALSE]

\* UART to itself, USB and Ethernet; USB and Ethernet to UART; WiFi to nothing
SomeRoutes ==
    [s \in Transports |-> [d \in Transports |->
        \/ s = MIDI_TRANSPORT_UART /\ d # MIDI_TRANSPORT_WIFI
        \/ s \in {MIDI_TRANSPORT_USB, MIDI_TRANSPORT_ETHERNET} /\ d = MIDI_TRANSPORT_UART]]

\* the configurations handed to midi_router_init
Configs ==
    [routing_matrix : {SomeRoutes},
     input_filters : {[t \in Transports |-> f] : f \in {FilterOff, FilterCh2}},
     auto_translate : BOOLEAN,
     merge_inputs : BOOLEAN]

\* a packet; seq is not in midi_router_packet_t: it is the ordinal of the
\* midi_router_send call that handed the packet in
Midi1Packet(source, status, data1, data2, length) ==
    [source |-> source, format |-> 0,
     midi1 |-> [status |-> status,
                channel |-> IF status < 240 THEN ChannelOf(status) ELSE 0,
                data1 |-> data1, data2 |-> data2, length |-> length],
     ump |-> NoUmp, seq |-> 0]

UmpPacket(source, u) ==
    [source |-> source, format |-> 1, midi1 |-> NoMidi1, ump |-> u, seq |-> 0]

\* MIDI 2.0 Note On, channel 2, note 60
UmpNoteOn == ump_build_midi2_note_on(0, 2, 60, midi_upscale_7to16(100), 0, 0).ump

\* a MIDI 1.0 Channel Voice message in a UMP (one word, Note On channel 1)
UmpMidi1Voice ==
    [words |-> <<Word(UMP_MT_MIDI1_CHANNEL_VOICE * 4096 + 145, 60 * 256 + 100),
                 Word(0, 0)>>,
     num_words |-> 1, message_type |-> UMP_MT_MIDI1_CHANNEL_VOICE, group |-> 0]

\* the packets the receive tasks hand to midi_router_send: Note On channel 2,
\* Control Change channel 1 and Timing Clock from the serial port,
\* UMP from the Ethernet transport
SendPackets ==
    {Midi1Packet(MIDI_TRANSPORT_UART, 146, 60, 100, 3),
     Midi1Packet(MIDI_TRANSPORT_UART, 177, 7, 100, 3),
     Midi1Packet(MIDI_TRANSPORT_UART, MIDI_STATUS_TIMING_CLOCK, 0, 0, 1),
     UmpPacket(MIDI_TRANSPORT_ETHERNET, UmpNoteOn),
     UmpPacket(MIDI_TRANSPORT_ETHERNET, UmpMidi1Voice)}

NoPacket == [source |-> 0, format |-> 0, midi1 |-> NoMidi1, ump |-> NoUmp, seq |-> 0]

\* no tx callback was called
\* outcome: "none", or how the pass over a destination ended: "blocked"
\* (route not enabled), "loopback", "declined" (translation failed), "nocb"
\* (no callback registered), "called"
NoTx == [called |-> FALSE, dest |-> 0, cb |-> "NULL", packet |-> NoPacket,
         err |-> "ESP_OK", outcome |-> "none"]

\* the accounting with every callback result counted as routed
CountTx_AlwaysRouted(st, src, d, err) ==
    [st EXCEPT !.packets_routed[src][d] = @ + 1]

\* the statistics after the tx callback of destination d returned err
CountTx(st, src, d, err) ==
    IF err = "ESP_OK"
    THEN [st EXCEPT !.packets_routed[src][d] = @ + 1]
    ELSE [st EXCEPT !.packets_dropped[d] = @ + 1]

\* a queue without a capacity: every item is taken
QueueSend_NoLimit(queue, item) ==
    [ok |-> TRUE, queue |-> Append(queue, item)]

\* xQueueSend with no wait: the queue afterwards, and whether it took the item
QueueSend(queue, item) ==
    IF Len(queue) >= ROUTER_QUEUE_SIZE
    THEN [ok |-> FALSE, queue |-> queue]
    ELSE [ok |-> TRUE, queue |-> Append(queue, item)]

\* a queue that hands out the newest item first
QueueReceive_Lifo(queue) ==
    [item |-> queue[Len(queue)], queue |-> SubSeq(queue, 1, Len(queue) - 1)]

\* xQueueReceive on a queue that holds something
QueueReceive(queue) == [item |-> Head(queue), queue |-> Tail(queue)]

\* a route check that looks at the matrix only
RouteEnabled_MatrixOnly(merge, cfg, src, d) == cfg.routing_matrix[src][d]

\* route_enabled of the dispatch loop
RouteEnabled(merge, cfg, src, d) == merge \/ cfg.routing_matrix[src][d]

\* a loop that gives the packet up at the first destination that fails
LoopAfter_BreakOnFailure(d, failed) ==
    IF failed \/ d + 1 >= MIDI_TRANSPORT_COUNT THEN "wait" ELSE "dest"

\* where the router task goes after destination d: every branch of the loop
\* body, the failing ones included, ends in the next pass of the for loop
LoopAfter(d, failed) ==
    IF d + 1 < MIDI_TRANSPORT_COUNT THEN "dest" ELSE "wait"

\* a loop that never passes a destination over
Loopback_Never(src, d) == FALSE

\* the dispatch loop's test against routing back to the source
Loopback(src, d) == d = src

\* One byte or two of every class midi_parser_parse_byte tells apart:
\* data 0x3C, 0x64; Note On ch 2 (two data bytes), Program Change ch 1 (one);
\* 0xF0, 0xF1 (one data byte), 0xF2 (two), 0xF4 (undefined), 0xF6, 0xF7;
\* 0xF8 and the undefined 0xF9
InputBytes == {60, 100, 146, 193, 240, 241, 242, 244, 246, 247, 248, 249}

\* (sysex_buffer, sysex_buffer_size) handed to midi_parser_init
InitArgs ==
    {<<"NULL", MaxSysexSize>>} \cup {<<"BUF", size>> : size \in 0..MaxSysexSize}

VARIABLES
    p,          \* midi_parser_state_t
    msg,        \* the caller's midi_message_t, the same one for every call
    mem,        \* the caller's memory at sysex_buffer
    complete,   \* the caller's message_complete flag
    op,         \* the last call: "init", "feed" or "reset"
    lastByte,   \* the byte of the last midi_parser_parse_byte call
    fed,        \* number of midi_parser_parse_byte calls so far
    sh,         \* a second parser, fed the same calls except the real-time bytes
    run,        \* the channel status in force, the data bytes of its open group
                \* and the number of groups closed under it
    sys,        \* the System Common status awaiting data, and the data so far
    clr,        \* running status cleared by System Common / SysEx Start
    sx,         \* SysEx mode and the data bytes since the opening 0xF0
    discarded,  \* data bytes of half-collected channel messages cut by a status
    out,        \* the serialized non-real-time messages emitted so far
    expect,     \* the bytes fed so far that are to come out again
    initialized,             \* g_router_state.initialized
    config,                  \* g_router_state.config
    stats,                   \* g_router_state.stats
    packet_queue,            \* the packets in g_router_state.packet_queue
    transport_tx_callbacks,  \* g_router_state.transport_tx_callbacks
    rpc,        \* midi_router_task: "none" (not created), "wait", "dest"
    packet,     \* midi_router_task: the packet being dispatched
    merge_mode, \* midi_router_task: merge_mode of the packet being dispatched
    dest,       \* midi_router_task: the loop variable
    tx,         \* the tx callback call of the last destination step, if any
    rret,       \* what the last call of init, send or register returned
    sent,       \* the packet the last call of midi_router_send was given
    snaps,      \* the configurations in force since the packet was dequeued
    considered, \* the destinations of the packet that passed the route checks
    sets,       \* calls of midi_router_set_route so far
    txlog,      \* the tx callback calls so far: source, destination, seq
    sends,      \* number of midi_router_send calls so far
    regs,       \* number of midi_router_register_transport_tx calls so far
    fcall,      \* the last call of a codec or translator function: name, arguments
    fres,       \* what that call returned and wrote
    peers,             \* g_wifi_state.peers, every slot of the array
    num_active_peers,  \* g_wifi_state.num_active_peers
    packets_rx_total,  \* g_wifi_state.stats.packets_rx_total
    clock_ms,          \* esp_timer_get_time() / 1000
    rx_pc,      \* midi_wifi_rx_task: "recv", "notify" or "deliver"
    rx_src,     \* midi_wifi_rx_task: src_ip and src_port of the datagram
    rx_data,    \* midi_wifi_rx_task: rx_buffer and len, the datagram
    rx_peer,    \* the session handler's local pointer peer, as a slot number
    rx_left,    \* the packets of the datagram not yet handed to rx_callback
    rx_ret,     \* what the last midi_wifi_session_handle_packet returned
    rx_cb,      \* the last callback call of the receive task
    ka_cb       \* the conn_callback calls of the last keepalive sweep

parserVars ==
    <<p, msg, mem, complete, op, lastByte, fed, sh, run, sys, clr, sx, discarded>>

routerVars ==
    <<initialized, config, stats, packet_queue, transport_tx_callbacks, rpc,
      packet, merge_mode, dest, tx, txlog, rret, sent, snaps, considered, sets,
      sends, regs>>

tripVars == <<out, expect>>

pureVars == <<fcall, fres>>

sessionVars ==
    <<peers, num_active_peers, packets_rx_total, clock_ms, rx_pc, rx_src,
      rx_data, rx_peer, rx_left, rx_ret, rx_cb, ka_cb>>

vars == <<parserVars, tripVars, routerVars, pureVars, sessionVars>>

\* no codec or translator function called yet
PureIdle ==
    /\ fcall = [fn |-> "none"]
    /\ fres = [err |-> "none"]

\* peers[] has CONFIG_MIDI_WIFI_MAX_CLIENTS slots; the value comes from the
\* build configuration
CONFIG_MIDI_WIFI_MAX_CLIENTS == 2

\* a midi_wifi_peer_t of the zero-initialised g_wifi_state
ZeroPeer ==
    [ip_addr |-> "", port |-> 0, session_id |-> 0, state |-> "DISCONNECTED",
     last_rx_time_ms |-> 0, packets_rx |-> 0]

NoCallback == [kind |-> "none"]

\* the network session before the first datagram: the tasks are created, no
\* peer is known
SessionIdle ==
    /\ peers = [i \in 1..CONFIG_MIDI_WIFI_MAX_CLIENTS |-> ZeroPeer]
    /\ num_active_peers = 0
    /\ packets_rx_total = 0
    /\ clock_ms = 0
    /\ rx_pc = "recv"
    /\ rx_src = [ip |-> "", port |-> 0]
    /\ rx_data = [packet_type |-> 0, len |-> 0, ump_data |-> <<>>]
    /\ rx_peer = 0
    /\ rx_left = <<>>
    /\ rx_ret = "ESP_OK"
    /\ rx_cb = NoCallback
    /\ ka_cb = <<>>

RunIdle == [S |-> 0, grp |-> <<>>, k |-> 0]
SysIdle == [st |-> 0, got |-> <<>>]
ClrIdle == [cleared |-> FALSE, own |-> 0, sx |-> FALSE]
SxIdle == [on |-> FALSE, data |-> <<>>]

NextRun(g, b) ==
    IF SpecRealTime(b) THEN g
    ELSE IF SpecChannelStatus(b) THEN [S |-> b, grp |-> <<>>, k |-> 0]
    ELSE IF ~SpecData(b) THEN RunIdle
    ELSE IF g.S = 0 THEN g
    ELSE IF Len(g.grp) + 1 = SpecDataCount(g.S) THEN [g EXCEPT !.grp = <<>>, !.k = @ + 1]
    ELSE [g EXCEPT !.grp = Append(@, b)]

NextSys(g, b) ==
    IF SpecRealTime(b) THEN g
    ELSE IF SpecSystemCommon(b) /\ SpecDataCount(b) > 0 THEN [st |-> b, got |-> <<>>]
    ELSE IF ~SpecData(b) THEN SysIdle
    ELSE IF g.st = 0 THEN g
    ELSE IF Len(g.got) + 1 = SpecDataCount(g.st) THEN SysIdle
    ELSE [g EXCEPT !.got = Append(@, b)]

NextClr(g, b) ==
    IF SpecRealTime(b) THEN g
    ELSE IF b = MIDI_STATUS_SYSEX_START THEN [cleared |-> TRUE, own |-> 0, sx |-> TRUE]
    ELSE IF b = MIDI_STATUS_SYSEX_END THEN [g EXCEPT !.sx = FALSE]
    ELSE IF SpecSystemCommon(b)
    THEN [cleared |-> TRUE, own |-> SpecDataCount(b), sx |-> FALSE]
    ELSE IF SpecChannelStatus(b) THEN ClrIdle
    ELSE IF g.sx THEN g
    ELSE IF g.own > 0 THEN [g EXCEPT !.own = @ - 1]
    ELSE g

NextSx(g, b) ==
    IF SpecRealTime(b) THEN g
    ELSE IF b = MIDI_STATUS_SYSEX_START THEN [on |-> TRUE, data |-> <<>>]
    ELSE IF ~SpecData(b) THEN SxIdle
    ELSE IF g.on THEN [g EXCEPT !.data = Append(@, b)]
    ELSE g

Range(s) == {s[i] : i \in DOMAIN s}

\* A data byte fed again is no longer counted as discarded.  0xF7 is left out
\* of the cutting status bytes: outside a SysEx the parser is to ignore it.
NextDiscarded(d, g, b) ==
    IF SpecRealTime(b) \/ b = MIDI_STATUS_SYSEX_END THEN d
    ELSE IF SpecData(b) THEN d \ {b}
    ELSE d \cup Range(g.grp)

(***************************************************************************)
(* ParserSpec: midi_parser_init, then midi_parser_parse_byte and           *)
(* midi_parser_reset in any order.                                         *)
(***************************************************************************)
\* static midi_router_state_t g_router_state = {0}
RouterIdle ==
    /\ initialized = FALSE
    /\ config = ZeroConfig
    /\ stats = ZeroStats
    /\ packet_queue = <<>>
    /\ transport_tx_callbacks = [t \in Transports |-> "NULL"]
    /\ rpc = "none"
    /\ packet = NoPacket
    /\ merge_mode = FALSE
    /\ dest = 0
    /\ tx = NoTx
    /\ txlog = <<>>
    /\ rret = "ESP_OK"
    /\ sent = NoPacket
    /\ snaps = {}
    /\ considered = {}
    /\ sets = 0
    /\ sends = 0
    /\ regs = 0
    /\ out = <<>>
    /\ expect = <<>>

ParserInit ==
    /\ RouterIdle
    /\ SessionIdle
    /\ PureIdle
    /\ \E a \in InitArgs : p = ParserInitState(a[1], a[2])
    /\ msg \in StackGarbage
    /\ mem = InitMem
    /\ complete = FALSE
    /\ op = "init"
    /\ lastByte = 0
    /\ fed = 0
    /\ sh = Result(p, msg, mem, complete)
    /\ run = RunIdle
    /\ sys = SysIdle
    /\ clr = ClrIdle
    /\ sx = SxIdle
    /\ discarded = {}

\* one midi_parser_parse_byte call on the parser under test
Call(b) ==
    /\ fed < MaxBytes
    /\ LET r == midi_parser_parse_byte(p, b, msg, mem)
       IN  /\ p' = r.p
           /\ msg' = r.msg
           /\ mem' = r.mem
           /\ complete' = r.complete
    /\ op' = "feed"
    /\ lastByte' = b
    /\ fed' = fed + 1

FeedByte ==
    \E b \in InputBytes :
        /\ Call(b)
        /\ run' = NextRun(run, b)
        /\ sys' = NextSys(sys, b)
        /\ clr' = NextClr(clr, b)
        /\ sx' = NextSx(sx, b)
        /\ discarded' = NextDiscarded(discarded, run, b)
        /\ UNCHANGED <<sh, tripVars, routerVars, pureVars, sessionVars>>

Reset ==
    /\ op # "reset"
    /\ p' = ParserResetState(p)
    /\ op' = "reset"
    /\ run' = RunIdle
    /\ sys' = SysIdle
    /\ clr' = ClrIdle
    /\ sx' = SxIdle
    /\ discarded' = discarded \cup Range(run.grp)
    /\ UNCHANGED <<msg, mem, complete, lastByte, fed, sh, tripVars, routerVars,
                   pureVars, sessionVars>>

ParserNext == FeedByte \/ Reset

ParserSpec == ParserInit /\ [][ParserNext]_vars

(***************************************************************************)
(* RealtimeSpec: the same calls on two parsers, the second of which (sh)   *)
(* is handed every byte except the real-time ones.                         *)
(***************************************************************************)
FeedBoth ==
    \E b \in InputBytes :
        /\ Call(b)
        /\ sh' = IF SpecRealTime(b) THEN sh
                 ELSE midi_parser_parse_byte(sh.p, b, sh.msg, sh.mem)
        /\ UNCHANGED <<run, sys, clr, sx, discarded, tripVars, routerVars,
                       pureVars, sessionVars>>

ResetBoth ==
    /\ op # "reset"
    /\ p' = ParserResetState(p)
    /\ op' = "reset"
    /\ sh' = [sh EXCEPT !.p = ParserResetState(sh.p)]
    /\ UNCHANGED <<msg, mem, complete, lastByte, fed, run, sys, clr, sx, discarded,
                   tripVars, routerVars, pureVars, sessionVars>>

RealtimeNext == FeedBoth \/ ResetBoth

RealtimeSpec == ParserInit /\ [][RealtimeNext]_vars

(***************************************************************************)
(* RoundTripSpec: bytes fed to a freshly initialised parser, every message *)
(* a non-real-time byte emits being serialized with midi_message_to_bytes  *)
(* and appended to out.                                                    *)
(***************************************************************************)
\* midi_parser_parse_byte calls in one behaviour of RoundTripSpec
MaxTripBytes == 4

\* what byte b adds to the stream that is to come out: nothing for a
\* real-time byte, an undefined status byte, a 0xF7 outside SysEx or a data
\* byte with no running status; the status byte too for a data byte that
\* opens a further group under running status
SpecKept(b) ==
    IF SpecRealTime(b) \/ b \in SpecUndefined THEN <<>>
    ELSE IF b = MIDI_STATUS_SYSEX_END THEN (IF sx.on THEN <<b>> ELSE <<>>)
    ELSE IF ~SpecData(b) THEN <<b>>
    ELSE IF sx.on \/ sys.st # 0 THEN <<b>>
    ELSE IF run.S = 0 THEN <<>>
    ELSE IF run.grp = <<>> /\ run.k > 0 THEN <<run.S, b>>
    ELSE <<b>>

FeedTrip ==
    \E b \in InputBytes :
        /\ fed < MaxTripBytes
        /\ Call(b)
        /\ run' = NextRun(run, b)
        /\ sys' = NextSys(sys, b)
        /\ clr' = NextClr(clr, b)
        /\ sx' = NextSx(sx, b)
        /\ discarded' = NextDiscarded(discarded, run, b)
        /\ expect' = expect \o SpecKept(b)
        /\ out' = IF complete' /\ ~SpecRealTime(b)
                  THEN out \o midi_message_to_bytes(msg', mem')
                  ELSE out
        /\ UNCHANGED <<sh, routerVars, pureVars, sessionVars>>

RoundTripSpec == ParserInit /\ [][FeedTrip]_vars

(***************************************************************************)
(* RouterSpec: midi_router_init, midi_router_register_transport_tx and     *)
(* midi_router_send called in any order by the other tasks, and            *)
(* midi_router_task taking one packet at a time from the queue and walking *)
(* the destinations, one step per destination.  A tx callback returns      *)
(* ESP_OK or ESP_FAIL.  The parser is left alone.                          *)
(***************************************************************************)
RouterStart ==
    /\ RouterIdle
    /\ SessionIdle
    /\ PureIdle
    /\ p = ParserInitState("NULL", 0)
    /\ msg = CHOOSE m \in StackGarbage : m.type = "CHANNEL"
    /\ mem = InitMem
    /\ complete = FALSE
    /\ op = "init"
    /\ lastByte = 0
    /\ fed = 0
    /\ sh = Result(p, msg, mem, complete)
    /\ run = RunIdle
    /\ sys = SysIdle
    /\ clr = ClrIdle
    /\ sx = SxIdle
    /\ discarded = {}

\* midi_router_init with a configuration
RouterInit ==
    /\ IF initialized
       THEN /\ rret' = "ESP_ERR_INVALID_STATE"
            /\ UNCHANGED <<initialized, config, stats, packet_queue,
                           transport_tx_callbacks, rpc>>
       ELSE \E cfg \in Configs :
                /\ rret' = "ESP_OK"
                /\ stats' = ZeroStats
                /\ transport_tx_callbacks' = [t \in Transports |-> "NULL"]
                /\ config' = cfg
                /\ packet_queue' = <<>>
                /\ rpc' = "wait"
                /\ initialized' = TRUE
    /\ UNCHANGED <<packet, merge_mode, dest, tx, txlog, sent, snaps, considered,
                   sets, sends, regs, parserVars, tripVars,
                   pureVars, sessionVars>>

\* midi_router_send
Send ==
    \E pk \in SendPackets :
        /\ sends + regs + sets < MaxCalls
        /\ sends' = sends + 1
        /\ sent' = [pk EXCEPT !.seq = sends + 1]
        /\ IF ~initialized
           THEN /\ rret' = "ESP_ERR_INVALID_STATE"
                /\ UNCHANGED <<packet_queue, stats>>
           ELSE LET r == QueueSend(packet_queue, sent')
                IN  IF ~r.ok
                    THEN /\ rret' = "ESP_ERR_NO_MEM"
                         /\ stats' = [stats EXCEPT !.packets_dropped[pk.source] = @ + 1]
                         /\ packet_queue' = r.queue
                    ELSE /\ rret' = "ESP_OK"
                         /\ packet_queue' = r.queue
                         /\ UNCHANGED stats
        /\ UNCHANGED <<initialized, config, transport_tx_callbacks, rpc, packet,
                       merge_mode, dest, tx, txlog, snaps, considered, sets, regs,
                       parserVars, tripVars,
                   pureVars, sessionVars>>

\* midi_router_register_transport_tx
RegisterTx ==
    \E transport \in 0..MIDI_TRANSPORT_COUNT, tx_callback \in {"cb1", "cb2"} :
        /\ sends + regs + sets < MaxCalls
        /\ regs' = regs + 1
        /\ IF transport >= MIDI_TRANSPORT_COUNT
           THEN /\ rret' = "ESP_ERR_INVALID_ARG"
                /\ UNCHANGED transport_tx_callbacks
           ELSE /\ rret' = "ESP_OK"
                /\ transport_tx_callbacks' =
                       [transport_tx_callbacks EXCEPT ![transport] = tx_callback]
        /\ UNCHANGED <<initialized, config, stats, packet_queue, rpc, packet,
                       merge_mode, dest, tx, txlog, sent, snaps, considered, sets,
                       sends, parserVars, tripVars,
                   pureVars, sessionVars>>

\* midi_router_task: xQueueReceive, the input filter, merge_mode
Dequeue ==
    /\ rpc = "wait"
    /\ packet_queue # <<>>
    /\ packet' = QueueReceive(packet_queue).item
    /\ packet_queue' = QueueReceive(packet_queue).queue
    /\ tx' = NoTx
    /\ snaps' = {config}
    /\ considered' = {}
    /\ IF ~midi_router_check_filter(packet', config.input_filters[packet'.source])
       THEN /\ stats' = [stats EXCEPT !.packets_filtered[packet'.source] = @ + 1]
            /\ UNCHANGED <<rpc, merge_mode, dest>>
       ELSE /\ merge_mode' = config.merge_inputs
            /\ dest' = 0
            /\ rpc' = "dest"
            /\ UNCHANGED stats
    /\ UNCHANGED <<initialized, config, transport_tx_callbacks, txlog, rret, sent,
                   sets, sends, regs, parserVars, tripVars,
                   pureVars, sessionVars>>

\* midi_router_task: one pass of the loop over the destinations
RouteDest ==
    /\ rpc = "dest"
    /\ dest' = dest + 1
    /\ LET src == packet.source
           r == midi_router_translate(config, stats, packet, DestWantsUmp(dest))
       IN  IF ~RouteEnabled(merge_mode, config, src, dest)
           THEN /\ tx' = [NoTx EXCEPT !.outcome = "blocked"]
                /\ UNCHANGED <<stats, txlog>>
           ELSE IF Loopback(src, dest)
           THEN /\ tx' = [NoTx EXCEPT !.outcome = "loopback"]
                /\ UNCHANGED <<stats, txlog>>
           ELSE IF r.err # "ESP_OK"
           THEN /\ tx' = [NoTx EXCEPT !.outcome = "declined"]
                /\ stats' = [r.stats EXCEPT !.routing_errors = @ + 1]
                /\ UNCHANGED txlog
           ELSE IF transport_tx_callbacks[dest] # "NULL"
           THEN \E err \in {"ESP_OK", "ESP_FAIL"} :
                    /\ tx' = [called |-> TRUE, dest |-> dest,
                              cb |-> transport_tx_callbacks[dest],
                              packet |-> r.packet, err |-> err,
                              outcome |-> "called"]
                    /\ txlog' = Append(txlog,
                           [source |-> src, dest |-> dest, seq |-> r.packet.seq,
                            realtime |-> packet.format = 0
                                         /\ SpecRealTime(packet.midi1.status)])
                    /\ stats' = CountTx(r.stats, src, dest, err)
           ELSE /\ tx' = [NoTx EXCEPT !.outcome = "nocb"]
                /\ stats' = r.stats
                /\ UNCHANGED txlog
    /\ rpc' = LoopAfter(dest, tx'.outcome = "declined"
                               \/ (tx'.called /\ tx'.err # "ESP_OK"))
    /\ considered' = IF tx'.outcome \in {"blocked", "loopback"}
                     THEN considered
                     ELSE considered \cup {dest}
    /\ UNCHANGED <<initialized, config, packet_queue, transport_tx_callbacks,
                   packet, merge_mode, rret, sent, snaps, sets, sends, regs,
                   parserVars, tripVars,
                   pureVars, sessionVars>>

RouterNext == RouterInit \/ Send \/ RegisterTx \/ Dequeue \/ RouteDest

\* midi_router_set_route, called from another task than the router task: it
\* writes one entry of the routing matrix of the configuration the router task
\* reads
SetRoute ==
    \E source \in Transports, destination \in Transports, enable \in BOOLEAN :
        /\ initialized
        /\ sends + regs + sets < MaxCalls
        /\ sets' = sets + 1
        /\ config' = [config EXCEPT !.routing_matrix[source][destination] = enable]
        /\ snaps' = IF rpc = "dest" THEN snaps \cup {config'} ELSE snaps
        /\ rret' = "ESP_OK"
        /\ UNCHANGED <<initialized, stats, packet_queue, transport_tx_callbacks, rpc,
                       packet, merge_mode, dest, tx, txlog, sent, considered, sends,
                       regs, parserVars, tripVars,
                   pureVars, sessionVars>>

ConfigNext == RouterNext \/ SetRoute

RouterSpec == RouterStart /\ [][RouterNext]_vars

\* the router with its configuration changed while it runs
ConfigSpec == RouterStart /\ [][ConfigNext]_vars

(***************************************************************************)
(* Properties of the parser                                                *)
(***************************************************************************)
Min(a, b) == IF a <= b THEN a ELSE b

\* the step is a midi_parser_parse_byte call
IsCall == fed' = fed + 1

\* C2: running status.  After a channel status S with data count n, and no
\* other non-real-time status since, a data byte emits a message exactly when
\* it is the last of a group of n, and that message carries S, S & 0x0F and
\* the group's bytes in order; the other data bytes emit nothing.
C2_RunningStatus ==
    [][ (IsCall /\ SpecData(lastByte') /\ run.S # 0) =>
            IF Len(run.grp) + 1 = SpecDataCount(run.S)
            THEN /\ complete'
                 /\ msg'.status = run.S
                 /\ msg'.channel = run.S % 16
                 /\ \A i \in 1..SpecDataCount(run.S) :
                        msg'.bytes[i] = Append(run.grp, lastByte')[i]
            ELSE ~complete' ]_vars

\* the second Note On under one status byte: 0x92 0x3C 0x64 0x64 0x3C
C2_Witness ==
    /\ op = "feed" /\ complete
    /\ run.S = 146 /\ run.k = 2
    /\ msg.status = 146 /\ msg.channel = 2 /\ msg.bytes = <<100, 60>>

\* C6: a SysEx message (status 0xF0) is emitted exactly by a 0xF7 that arrives
\* in SysEx mode; its length is the number of data bytes stored since the
\* opening 0xF0 and the buffer holds those bytes in arrival order; a 0xF7
\* outside SysEx mode emits nothing and changes neither parser nor message.
SysexStored == IF p.sysex_buffer = "NULL" THEN 0 ELSE Min(Len(sx.data), p.sysex_buffer_size)

C6_SysexEmission ==
    [][ IsCall =>
          /\ (complete' /\ msg'.status = MIDI_STATUS_SYSEX_START)
                <=> (lastByte' = MIDI_STATUS_SYSEX_END /\ sx.on)
          /\ (lastByte' = MIDI_STATUS_SYSEX_END /\ sx.on) =>
                /\ msg'.sysex_length = SysexStored
                /\ msg'.sysex_data = p.sysex_buffer
                /\ \A i \in 0..(SysexStored - 1) : mem'.cells[i] = sx.data[i + 1]
          /\ (lastByte' = MIDI_STATUS_SYSEX_END /\ ~sx.on) =>
                /\ ~complete'
                /\ p' = p /\ msg' = msg /\ mem' = mem ]_vars

\* 0xF0 0x3C 0x64 0xF7 with a buffer of two bytes or more
C6_Witness ==
    /\ op = "feed" /\ lastByte = MIDI_STATUS_SYSEX_END /\ complete
    /\ msg.status = MIDI_STATUS_SYSEX_START /\ msg.sysex_length = 2
    /\ mem.cells[0] = 60 /\ mem.cells[1] = 100

\* C7: the SysEx write index never exceeds the buffer's capacity, nothing is
\* stored outside the buffer or through a null buffer, and the bytes of a
\* SysEx that do not fit are dropped: the buffer keeps the first capacity
\* bytes of the body.
C7_SysexBounds ==
    /\ p.sysex_index <= p.sysex_buffer_size
    /\ ~mem.fault
    /\ \A i \in DOMAIN mem.cells :
           (p.sysex_buffer = "NULL" \/ i >= p.sysex_buffer_size) => mem.cells[i] = Unwritten
    /\ sx.on =>
           /\ p.sysex_index = SysexStored
           /\ \A i \in 0..(SysexStored - 1) : mem.cells[i] = sx.data[i + 1]

\* a SysEx body one byte longer than a non-empty buffer
C7_Witness ==
    /\ sx.on /\ p.in_sysex
    /\ p.sysex_buffer = "BUF" /\ p.sysex_buffer_size >= 1
    /\ Len(sx.data) > p.sysex_buffer_size
    /\ p.sysex_index = p.sysex_buffer_size

\* C3: a real-time byte is emitted at once as its own message and leaves
\* running status, the accumulator, the expected count, the SysEx flag, the
\* write index and the buffer as they were; every other byte then completes
\* (or not) exactly as in the stream without the real-time bytes, with the
\* same status, channel and data.
SameCollecting(a, b) ==
    /\ a.running_status = b.running_status
    /\ a.data_bytes = b.data_bytes
    /\ a.data_index = b.data_index
    /\ a.expected_data_bytes = b.expected_data_bytes
    /\ a.in_sysex = b.in_sysex
    /\ a.sysex_index = b.sysex_index

C3_RealtimeTransparent ==
    [][ IsCall =>
          IF SpecRealTime(lastByte')
          THEN /\ complete'
               /\ msg'.status = lastByte'
               /\ SameCollecting(p', p)
               /\ mem' = mem
          ELSE /\ complete' = sh'.complete
               /\ complete' =>
                      /\ msg'.status = sh'.msg.status
                      /\ msg'.channel = sh'.msg.channel
                      /\ msg'.bytes = sh'.msg.bytes
                      /\ msg'.sysex_data = sh'.msg.sysex_data
                      /\ msg'.sysex_length = sh'.msg.sysex_length
                      /\ mem' = sh'.mem ]_vars

\* 0xF8 between the status or data bytes of a Note On: 0x92 0x3C 0xF8 0x64
C3_Witness ==
    /\ op = "feed" /\ complete /\ lastByte = 100
    /\ msg.status = 146 /\ msg.bytes = <<60, 100>>
    /\ msg.type = "SYSTEM_REALTIME" /\ sh.msg.type = "CHANNEL"
    /\ p.messages_parsed = sh.p.messages_parsed + 1

\* C4: once a System Common status or a SysEx Start has cleared running
\* status, a data byte that is neither that System Common message's own data
\* nor inside the SysEx body produces no message.
C4_DroppedAfterClear ==
    [][ (IsCall /\ SpecData(lastByte') /\ clr.cleared /\ ~clr.sx /\ clr.own = 0)
            => ~complete' ]_vars

\* C5: a System Common status with data is emitted on its last data byte, and
\* only there, carrying its own status byte and its data; 0xF6 is emitted at
\* once.
C5_SystemCommon ==
    [][ IsCall =>
          /\ lastByte' = MIDI_STATUS_TUNE_REQUEST =>
                complete' /\ msg'.status = MIDI_STATUS_TUNE_REQUEST
          /\ (SpecData(lastByte') /\ sys.st # 0) =>
                IF Len(sys.got) + 1 = SpecDataCount(sys.st)
                THEN /\ complete'
                     /\ msg'.status = sys.st
                     /\ \A i \in 1..SpecDataCount(sys.st) :
                            msg'.bytes[i] = Append(sys.got, lastByte')[i]
                ELSE ~complete' ]_vars

\* C8: the data bytes of a channel message cut short by a non-real-time
\* status byte (0xF0 included; a 0xF7 outside SysEx, which the parser is to
\* ignore, is not counted) appear in no message emitted afterwards.
C8_HalfMessageDiscarded ==
    (op = "feed" /\ complete) =>
        /\ SpecData(lastByte) =>
               \A i \in 1..p.expected_data_bytes : msg.bytes[i] \notin discarded
        /\ lastByte = MIDI_STATUS_SYSEX_END =>
               \A i \in 0..(msg.sysex_length - 1) : mem.cells[i] \notin discarded

\* C9: the undefined status bytes 0xF4, 0xF5, 0xF9 and 0xFD emit no message.
C9_UndefinedIgnored ==
    [][ (IsCall /\ lastByte' \in SpecUndefined) => ~complete' ]_vars

\* C10: every emitted message has a status byte with the MSB set, data bytes
\* of at most 0x7F, and, for a channel message, channel = status & 0x0F.
C10_WellFormed ==
    (op = "feed" /\ complete) =>
        /\ msg.status >= 128
        /\ \A i \in 1..SpecDataCount(msg.status) : msg.bytes[i] <= 127
        /\ SpecChannelStatus(msg.status) => msg.channel = msg.status % 16

\* a byte to be dropped as bad: an undefined status byte, a data byte with
\* neither a channel status in force nor a System Common message awaiting
\* data, a SysEx data byte for which the buffer has no room left
SpecBadByte(b) ==
    \/ b \in SpecUndefined
    \/ SpecData(b) /\ ~sx.on /\ run.S = 0 /\ sys.st = 0
    \/ SpecData(b) /\ sx.on /\ p.sysex_buffer # "NULL"
          /\ Len(sx.data) >= p.sysex_buffer_size

\* C11: parse_errors grows by exactly one on every byte dropped as bad and is
\* left as it was by every other byte.
C11_ParseErrors ==
    [][ IsCall =>
          p'.parse_errors = p.parse_errors + (IF SpecBadByte(lastByte') THEN 1 ELSE 0)
      ]_vars

\* C12: the serialized non-real-time messages, in emission order, give the
\* bytes fed with the real-time bytes and the dropped bytes removed and the
\* status bytes omitted under running status put back: at every point an
\* initial part of that stream, and all of it when a message has just been
\* emitted.
IsPrefix(a, b) == Len(a) <= Len(b) /\ SubSeq(b, 1, Len(a)) = a

C12_RoundTrip ==
    /\ IsPrefix(out, expect)
    /\ (op = "feed" /\ complete /\ ~SpecRealTime(lastByte)) => out = expect

(***************************************************************************)
(* Properties of the router                                                *)
(***************************************************************************)
\* a pass of the destination loop
IsRouteDest == rpc = "dest" /\ dest' = dest + 1

\* UART is MIDI 1.0 only, the network transports UMP only, USB takes either
PreferredFormats(d) ==
    IF d = MIDI_TRANSPORT_UART THEN {0}
    ELSE IF d = MIDI_TRANSPORT_USB THEN {0, 1}
    ELSE {1}

\* the translator has a translation of the packet's payload
TranslationExists(pk) ==
    IF pk.format = 0
    THEN midi_translate_1to2(pk.midi1).err = "ESP_OK"
    ELSE midi_translate_2to1(pk.ump).err = "ESP_OK"

\* C1: for a dequeued packet from source s, the tx callback registered for
\* destination d is called if and only if the filter of s passes the packet,
\* (merge_inputs or route[s][d]), d # s, and the packet's format is one d
\* takes or (auto_translate is on and a translation of the packet exists).
C1_DispatchIff ==
    [][ (IsRouteDest /\ transport_tx_callbacks[dest] # "NULL") =>
          ( (tx'.called /\ tx'.dest = dest)
            <=> /\ midi_router_check_filter(packet,
                                            config.input_filters[packet.source])
                /\ (config.merge_inputs \/ config.routing_matrix[packet.source][dest])
                /\ dest # packet.source
                /\ \/ packet.format \in PreferredFormats(dest)
                   \/ config.auto_translate /\ TranslationExists(packet) ) ]_vars

\* C13: midi_router_send on an initialised router is one step that never waits:
\* with fewer than ROUTER_QUEUE_SIZE packets queued it appends the packet and
\* returns ESP_OK; with ROUTER_QUEUE_SIZE packets queued it returns
\* ESP_ERR_NO_MEM, leaves the queue as it was and adds one to
\* packets_dropped of the packet's source; and no step of a producer or of
\* the router task ever makes the queue longer than ROUTER_QUEUE_SIZE.
C13_SendNeverBlocks ==
    [][/\ Len(packet_queue') <= ROUTER_QUEUE_SIZE
       /\ (initialized /\ sends' = sends + 1) =>
              IF Len(packet_queue) < ROUTER_QUEUE_SIZE
              THEN /\ rret' = "ESP_OK"
                   /\ packet_queue' = Append(packet_queue, sent')
                   /\ stats' = stats
              ELSE /\ rret' = "ESP_ERR_NO_MEM"
                   /\ packet_queue' = packet_queue
                   /\ stats' = [stats EXCEPT
                                   !.packets_dropped[sent'.source] = @ + 1]]_vars

\* a send was turned away by a full queue
C13_Witness ==
    /\ initialized
    /\ rret = "ESP_ERR_NO_MEM"
    /\ Len(packet_queue) = ROUTER_QUEUE_SIZE
    /\ stats.packets_dropped[sent.source] = 1

\* C14: for every pair of a source and a destination, the calls of the
\* destination's tx_callback with packets of that source come in the order in
\* which midi_router_send took the packets (seq numbers the calls of send),
\* whatever the kind of the packets, real-time or channel message.
C14_OrderPreserved ==
    \A i, j \in 1..Len(txlog) :
        (i < j /\ txlog[i].source = txlog[j].source /\ txlog[i].dest = txlog[j].dest)
            => txlog[i].seq < txlog[j].seq

\* a destination was handed a channel message and a Timing Clock of one source
C14_Witness ==
    \E i, j \in 1..Len(txlog) :
        /\ i < j
        /\ txlog[i].source = txlog[j].source
        /\ txlog[i].dest = txlog[j].dest
        /\ txlog[i].realtime # txlog[j].realtime

\* C15: no call of a tx_callback hands a packet to the transport it came
\* from, whatever the routing matrix (route[s][s] included) and whether
\* merge_inputs is set or not.
C15_NoLoopback ==
    /\ tx.called => tx.dest # tx.packet.source
    /\ \A i \in 1..Len(txlog) : txlog[i].dest # txlog[i].source

\* the loop reached the packet's own source with the route enabled and a
\* callback registered for it, and passed it over
C15_Witness ==
    /\ tx.outcome = "loopback"
    /\ dest = packet.source + 1
    /\ transport_tx_callbacks[packet.source] # "NULL"
    /\ ~merge_mode
    /\ config.routing_matrix[packet.source][packet.source]

\* C16: a packet that passed its source's filter is considered for a
\* destination (taken to translation and callback) exactly if the destination
\* is not the packet's source and either merge_inputs is set or
\* routing_matrix[source][destination] is set: with merge_inputs set the matrix
\* plays no part, without it the matrix decides.
C16_MergeMode ==
    [][IsRouteDest =>
          ( tx'.outcome \in {"declined", "called", "nocb"}
              <=> /\ dest # packet.source
                  /\ (config.merge_inputs \/ config.routing_matrix[packet.source][dest]) )
      ]_vars

\* with merge_inputs set a packet was handed to a destination its matrix row
\* does not name
C16_Witness ==
    /\ tx.called
    /\ config.merge_inputs
    /\ ~config.routing_matrix[tx.packet.source][tx.dest]

\* the router task takes a packet from the queue
IsDequeue == rpc = "wait" /\ Len(packet_queue') = Len(packet_queue) - 1

\* a channel-bearing packet as the specification has it: a MIDI 1.0 channel
\* message or a UMP channel-voice message (message type 2 or 4)
ChannelBearing(pk) ==
    IF pk.format = 0
    THEN pk.midi1.status < 240
    ELSE pk.ump.message_type \in {UMP_MT_MIDI1_CHANNEL_VOICE, UMP_MT_MIDI2_CHANNEL_VOICE}

\* its channel: the low four bits of the status byte
PacketChannel(pk) ==
    IF pk.format = 0 THEN pk.midi1.status % 16 ELSE pk.ump.words[1].hi % 16

\* C17: with the filter of the packet's source enabled, a channel-bearing
\* packet (MIDI 1.0 channel message or UMP channel-voice message) goes on to
\* the destinations only if its channel is in channel_mask, Active Sensing
\* only if block_active_sensing is clear and Timing Clock only if block_clock
\* is clear; a rejected packet adds exactly one to packets_filtered of its
\* source and is handed to no callback.
C17_Filter ==
    [][IsDequeue =>
          LET pk == Head(packet_queue)
              f == config.input_filters[pk.source]
              pass == \/ ~f.enabled
                      \/ /\ ChannelBearing(pk) => PacketChannel(pk) \in f.channel_mask
                         /\ ~(/\ f.block_active_sensing /\ pk.format = 0
                              /\ pk.midi1.status = MIDI_STATUS_ACTIVE_SENSING)
                         /\ ~(/\ f.block_clock /\ pk.format = 0
                              /\ pk.midi1.status = MIDI_STATUS_TIMING_CLOCK)
          IN  IF pass
              THEN rpc' = "dest" /\ stats' = stats
              ELSE /\ rpc' = "wait"
                   /\ stats' = [stats EXCEPT !.packets_filtered[pk.source] = @ + 1]
                   /\ txlog' = txlog
      ]_vars

\* C18: whenever a tx_callback is called, the packet it is given is in a
\* format its destination takes (UMP for Ethernet and WiFi, MIDI 1.0 for the
\* UART, either for USB), and a packet handed to USB is the dequeued packet
\* itself, in the format it arrived in.
C18_DestinationFormats ==
    tx.called =>
        /\ tx.packet.format \in PreferredFormats(tx.dest)
        /\ tx.dest = MIDI_TRANSPORT_USB => tx.packet = packet

\* the destination is one the packet has to be handed to: its route is
\* enabled, it is not the source, the translation goes through and a callback
\* is registered
Eligible(pk, d) ==
    /\ RouteEnabled(merge_mode, config, pk.source, d)
    /\ d # pk.source
    /\ midi_router_translate(config, stats, pk, DestWantsUmp(d)).err = "ESP_OK"
    /\ transport_tx_callbacks[d] # "NULL"

\* C19: a pass of the loop over the destinations never changes the dequeued
\* packet; when the translation declines, routing_errors grows by one and no
\* callback is called, when the callback fails, packets_dropped of the
\* destination grows by one, and in both cases the loop goes on with the next
\* destination; every eligible destination has its callback called with the
\* translation of the packet as it was dequeued.
C19_FailureLocal ==
    [][IsRouteDest =>
          /\ packet' = packet
          /\ tx'.outcome = "declined" =>
                /\ ~tx'.called
                /\ txlog' = txlog
                /\ stats'.routing_errors = stats.routing_errors + 1
          /\ (tx'.called /\ tx'.err # "ESP_OK") =>
                stats'.packets_dropped[dest] = stats.packets_dropped[dest] + 1
          /\ (tx'.outcome = "declined" \/ (tx'.called /\ tx'.err # "ESP_OK")) =>
                rpc' = IF dest + 1 < MIDI_TRANSPORT_COUNT THEN "dest" ELSE "wait"
          /\ Eligible(packet, dest) =>
                /\ tx'.called
                /\ tx'.dest = dest
                /\ tx'.packet = midi_router_translate(config, stats, packet,
                                                      DestWantsUmp(dest)).packet
      ]_vars

\* the only packet sent so far failed at one destination (its callback
\* returned an error) and was then handed to a later destination
C19_Witness ==
    /\ sends = 1
    /\ Len(txlog) = 2
    /\ txlog[1].seq = txlog[2].seq
    /\ stats.packets_dropped[txlog[1].dest] = 1
    /\ tx.called
    /\ tx.dest = txlog[2].dest
    /\ tx.err = "ESP_OK"

\* the destinations a packet of source src has under one configuration c
DestinationSet(c, src) ==
    {d \in Transports : d # src /\ (c.merge_inputs \/ c.routing_matrix[src][d])}

\* C20: when the router task has finished the loop over the destinations of a
\* packet, the destinations it considered are the destination set of one
\* configuration that was in force while the packet was dispatched, a
\* configuration whose filter lets the packet pass and whose merge flag is the
\* one the loop used.
C20_ConfigSnapshot ==
    [][(IsRouteDest /\ rpc' = "wait") =>
          \E c \in snaps' :
              /\ midi_router_check_filter(packet, c.input_filters[packet.source])
              /\ c.merge_inputs = merge_mode
              /\ considered' = DestinationSet(c, packet.source)
      ]_vars

(***************************************************************************)
(* The UMP codec and the translator: functions of their arguments.  A      *)
(* 32-bit word is kept as two 16-bit halves.  PureSpec calls each function *)
(* once with arguments from the sets below and records the call and what   *)
(* it returned and wrote.                                                  *)
(***************************************************************************)
UMP_MT_UTILITY == 0
UMP_MT_SYSTEM == 1
UMP_MT_DATA_64 == 3
UMP_MT_DATA_128 == 5
UMP_MT_RESERVED_6 == 6
UMP_MT_RESERVED_7 == 7
UMP_MT_RESERVED_8 == 8
UMP_MT_RESERVED_9 == 9
UMP_MT_RESERVED_A == 10
UMP_MT_RESERVED_B == 11
UMP_MT_RESERVED_C == 12
UMP_MT_FLEX_DATA == 13
UMP_MT_RESERVED_E == 14
UMP_MT_UMP_STREAM == 15
UMP_MAX_WORDS == 4

\* UMP_GET_MT, UMP_GET_GROUP, UMP_GET_STATUS_BYTE, UMP_GET_CHANNEL
UMP_GET_MT(word0) == (word0.hi \div 4096) % 16
UMP_GET_GROUP(word0) == (word0.hi \div 256) % 16
UMP_GET_STATUS_BYTE(word0) == word0.hi % 256
UMP_GET_CHANNEL(word0) == word0.hi % 16

\* ump_packet_t with all of its UMP_MAX_WORDS words
UmpStruct(words, num_words, message_type, group, timestamp_us) ==
    [words |-> words, num_words |-> num_words, message_type |-> message_type,
     group |-> group, timestamp_us |-> timestamp_us]

\* a zeroed ump_packet_t, and one that was never written (a local variable of
\* the caller): its bytes are whatever the stack held
ZeroedUmp == UmpStruct([i \in 1..UMP_MAX_WORDS |-> Word(0, 0)], 0, 0, 0, 0)

StaleUmp ==
    UmpStruct([i \in 1..UMP_MAX_WORDS |-> Word(43690, 21845 + i)], 3, 9, 255, 77)

\* a null pointer in the place of an array of words, of a ump_packet_t
NullWords == <<>>
NullUmp == [null |-> TRUE]

PriorPackets == {ZeroedUmp, StaleUmp}

\* sizes by thresholds on the Message Type instead of the table
ParserWords_Thresholds(mt) ==
    IF mt <= 2 THEN 1 ELSE IF mt <= 5 THEN 2 ELSE IF mt <= 12 THEN 3 ELSE 4

\* the number of words ump_parser_parse_packet gives a Message Type, 0 for
\* the default branch of its switch
ParserWords(mt) ==
    IF mt \in {UMP_MT_UTILITY, UMP_MT_SYSTEM, UMP_MT_MIDI1_CHANNEL_VOICE,
               UMP_MT_RESERVED_6, UMP_MT_RESERVED_7} THEN 1
    ELSE IF mt \in {UMP_MT_DATA_64, UMP_MT_MIDI2_CHANNEL_VOICE, UMP_MT_RESERVED_8,
                    UMP_MT_RESERVED_9, UMP_MT_RESERVED_A} THEN 2
    ELSE IF mt \in {UMP_MT_RESERVED_B, UMP_MT_RESERVED_C} THEN 3
    ELSE IF mt \in {UMP_MT_DATA_128, UMP_MT_FLEX_DATA, UMP_MT_UMP_STREAM,
                    UMP_MT_RESERVED_E} THEN 4
    ELSE 0

\* words is the caller's array of UMP_MAX_WORDS words or NullWords, pkt the
\* caller's ump_packet_t as it was before the call or NullUmp
ump_parser_parse_packet(words, pkt) ==
    IF words = NullWords \/ pkt = NullUmp
    THEN [err |-> "ESP_ERR_INVALID_ARG", packet |-> pkt]
    ELSE LET mt == UMP_GET_MT(words[1])
             num_words == ParserWords(mt)
         IN  IF num_words = 0
             THEN [err |-> "ESP_ERR_NOT_SUPPORTED", packet |-> pkt]
             ELSE [err |-> "ESP_OK",
                   packet |-> UmpStruct([i \in 1..UMP_MAX_WORDS |->
                                            IF i <= num_words THEN words[i]
                                            ELSE pkt.words[i]],
                                        num_words, mt, UMP_GET_GROUP(words[1]), 0)]

\* word 0 of the packets on the wire: every Message Type, three groups, two
\* status bytes
WireWord0 ==
    {Word(mt * 4096 + g * 256 + st, lo) :
        mt \in 0..15, g \in {0, 5, 15}, st \in {0, 146}, lo \in {15360}}

\* the words that follow word 0 in the caller's array
WireRest == {<<Word(0, 0), Word(0, 0), Word(0, 0)>>,
             <<Word(32768, 1), Word(4660, 2), Word(65535, 3)>>}

WireWords == {<<w>> \o r : w \in WireWord0, r \in WireRest}

\* a call of ump_parser_parse_packet
DecodeCalls ==
    {[fn |-> "ump_parser_parse_packet", words |-> words, packet |-> pkt] :
        words \in WireWords \cup {NullWords}, pkt \in PriorPackets \cup {NullUmp}}

\* no result yet: the call in fcall has not been made
Pending == [err |-> "none"]

\* the call fn has been made and fres holds what it returned
Returned(fn) == fcall.fn = fn /\ fres.err # "none"

Decode ==
    /\ fcall.fn = "ump_parser_parse_packet"
    /\ fres = Pending
    /\ fres' = ump_parser_parse_packet(fcall.words, fcall.packet)
    /\ UNCHANGED <<parserVars, tripVars, routerVars, sessionVars, fcall>>

\* the number of words handle_ump_payload gives a Message Type
WifiNumWords(mt) ==
    IF mt <= 2 THEN 1 ELSE IF mt <= 5 THEN 2 ELSE IF mt <= 12 THEN 3 ELSE 4

\* the number of words parse_usb_ump gives a Message Type
UsbNumWords(mt) ==
    IF mt <= 2 THEN 1 ELSE IF mt <= 5 THEN 2 ELSE IF mt <= 12 THEN 3 ELSE 4

\* handle_ump_payload for a connected peer, from offset (in words) on: the
\* packets handed to rx_callback.  ump_data is a whole number of words.
RECURSIVE handle_ump_payload(_, _)
handle_ump_payload(ump_data, offset) ==
    IF offset + 1 > Len(ump_data) THEN <<>>
    ELSE LET word0 == ump_data[offset + 1]
             mt == (word0.hi \div 4096) % 16
             num_words == WifiNumWords(mt)
         IN  IF offset + num_words > Len(ump_data) THEN <<>>
             ELSE << UmpStruct([i \in 1..UMP_MAX_WORDS |->
                                   IF i <= num_words THEN ump_data[offset + i]
                                   ELSE Word(0, 0)],
                               num_words, mt, (word0.hi \div 256) % 16, 0) >>
                  \o handle_ump_payload(ump_data, offset + num_words)

\* parse_usb_ump: usb_data is a whole number of words, len = 4 * Len(usb_data);
\* ump is the data.ump member of out_packet as it was before the call
parse_usb_ump(usb_data, ump) ==
    IF 4 * Len(usb_data) < 4 THEN [err |-> "ESP_ERR_INVALID_SIZE", ump |-> ump]
    ELSE LET mt == (usb_data[1].hi \div 4096) % 16
             num_words == UsbNumWords(mt)
         IN  IF 4 * Len(usb_data) < num_words * 4
             THEN [err |-> "ESP_ERR_INVALID_SIZE", ump |-> ump]
             ELSE [err |-> "ESP_OK",
                   ump |-> UmpStruct([i \in 1..UMP_MAX_WORDS |->
                                         IF i <= num_words THEN usb_data[i]
                                         ELSE ump.words[i]],
                                     num_words, mt, (usb_data[1].hi \div 256) % 16,
                                     ump.timestamp_us)]

\* a MIDI 1.0 Channel Voice UMP (one word) and a Utility UMP (one word)
WireNote == Word(UMP_MT_MIDI1_CHANNEL_VOICE * 4096 + 146, 15460)
WireNoop == Word(0, 0)

\* payloads of concatenated UMPs: a word 0 of every Message Type, followed by
\* up to four more words
WirePayloads ==
    {<<Word(mt * 4096 + 146, 15360)>> \o rest :
        mt \in 0..15,
        rest \in {<<>>, <<WireNote>>, <<WireNote, WireNoop, WireNote>>,
                  <<WireNoop, WireNote, WireNote, WireNote>>}}

\* a payload arrives from a connected peer of the network session
WifiCalls ==
    {[fn |-> "handle_ump_payload", ump_data |-> ump_data] :
        ump_data \in WirePayloads \cup {<<>>}}

WifiRx ==
    /\ fcall.fn = "handle_ump_payload"
    /\ fres = Pending
    /\ fres' = [err |-> "ESP_OK",
                packets |-> handle_ump_payload(fcall.ump_data, 0)]
    /\ UNCHANGED <<parserVars, tripVars, routerVars, sessionVars, fcall>>

\* a buffer arrives from the USB host in MIDI 2.0 mode
UsbCalls ==
    {[fn |-> "parse_usb_ump", usb_data |-> usb_data, ump |-> ump] :
        usb_data \in WirePayloads \cup {<<>>}, ump \in PriorPackets}

UsbRx ==
    /\ fcall.fn = "parse_usb_ump"
    /\ fres = Pending
    /\ fres' = parse_usb_ump(fcall.usb_data, fcall.ump)
    /\ UNCHANGED <<parserVars, tripVars, routerVars, sessionVars, fcall>>

\* words_out is the caller's array of words_out_count words as it was before
\* the call, or NullWords with words_out_count = 0
ump_message_serialize(pkt, words_out, words_out_count) ==
    IF pkt = NullUmp \/ words_out = NullWords \/ words_out_count < pkt.num_words
    THEN [err |-> "ESP_ERR_INVALID_ARG", words_out |-> words_out]
    ELSE [err |-> "ESP_OK",
          words_out |-> [i \in 1..words_out_count |->
                            IF i <= pkt.num_words THEN pkt.words[i]
                            ELSE words_out[i]]]

\* packets that are valid by the invariant of ump_packet_t: num_words as the
\* Message Type mandates, the unused words zero, message_type and group as in
\* word 0, no timestamp
ValidPackets ==
    {UmpStruct([i \in 1..UMP_MAX_WORDS |->
                   IF i = 1 THEN Word(mt * 4096 + g * 256 + 146, 15360)
                   ELSE IF i <= ParserWords(mt) THEN Word(4660 + i, 22136)
                   ELSE Word(0, 0)],
               ParserWords(mt), mt, g, 0) : mt \in 0..15, g \in {0, 5}}

\* the caller's buffer before the call: count words (at least one, so that
\* it is not NullWords) holding older data
StaleWords(count) == [i \in 1..count |-> Word(48879, i)]

SerializeCalls ==
    {[fn |-> "ump_message_serialize", packet |-> pkt,
      words_out |-> StaleWords(words_out_count),
      words_out_count |-> words_out_count] :
        pkt \in ValidPackets, words_out_count \in 1..UMP_MAX_WORDS}

\* a call of ump_message_serialize
Serialize ==
    /\ fcall.fn = "ump_message_serialize"
    /\ fres = Pending
    /\ fres' = ump_message_serialize(fcall.packet, fcall.words_out,
                                     fcall.words_out_count)
    /\ UNCHANGED <<parserVars, tripVars, routerVars, sessionVars, fcall>>

\* ump_parser_parse_packet called on the words a successful
\* ump_message_serialize has just written
DecodeSerialized ==
    \E pkt \in PriorPackets :
        /\ fcall.fn = "ump_message_serialize"
        /\ fres.err = "ESP_OK"
        /\ fcall' = [fn |-> "parse_serialized", words |-> fres.words_out,
                     packet |-> pkt, original |-> fcall.packet]
        /\ fres' = ump_parser_parse_packet(fres.words_out, pkt)
        /\ UNCHANGED <<parserVars, tripVars, routerVars, sessionVars>>

\* ump_build_midi2_note_on with its output parameter: packet_out as the call
\* leaves it; words[2..3] are not written, and nothing is on an error
build_midi2_note_on_into(group, channel, note, velocity16, attr_type, attr_data, packet_out) ==
    LET b == ump_build_midi2_note_on(group, channel, note, velocity16,
                                     attr_type, attr_data)
    IN  IF packet_out = NullUmp \/ b.err # "ESP_OK"
        THEN [err |-> "ESP_ERR_INVALID_ARG", packet |-> packet_out]
        ELSE [err |-> "ESP_OK",
              packet |-> UmpStruct([i \in 1..UMP_MAX_WORDS |->
                                       IF i <= 2 THEN b.ump.words[i]
                                       ELSE packet_out.words[i]],
                                   b.ump.num_words, b.ump.message_type,
                                   b.ump.group, 0)]

\* uint8_t arguments below, at and above the limits the builder checks
BuildGroups == {0, 5, 15, 16, 255}
BuildChannels == {0, 9, 15, 16}
BuildNotes == {0, 60, 127, 128}
BuildVelocities == {0, 1, 32768, 65535}

BuildCalls ==
    {[fn |-> "ump_build_midi2_note_on", group |-> group, channel |-> channel,
      note |-> note, velocity16 |-> velocity16, packet_out |-> pkt] :
        group \in BuildGroups, channel \in BuildChannels, note \in BuildNotes,
        velocity16 \in BuildVelocities, pkt \in PriorPackets \cup {NullUmp}}

\* a call of ump_build_midi2_note_on
Build ==
    /\ fcall.fn = "ump_build_midi2_note_on"
    /\ fres = Pending
    /\ fres' = build_midi2_note_on_into(fcall.group, fcall.channel, fcall.note,
                                        fcall.velocity16, 0, 0, fcall.packet_out)
    /\ UNCHANGED <<parserVars, tripVars, routerVars, sessionVars, fcall>>

\* ump_parser_parse_packet called on the words of a packet that
\* ump_build_midi2_note_on has just built
DecodeBuilt ==
    \E pkt \in PriorPackets :
        /\ fcall.fn = "ump_build_midi2_note_on"
        /\ fres.err = "ESP_OK"
        /\ fcall' = [fn |-> "parse_built", group |-> fcall.group,
                     channel |-> fcall.channel, note |-> fcall.note,
                     velocity16 |-> fcall.velocity16,
                     words |-> fres.packet.words, packet |-> pkt]
        /\ fres' = ump_parser_parse_packet(fres.packet.words, pkt)
        /\ UNCHANGED <<parserVars, tripVars, routerVars, sessionVars>>

\* every uint8_t argument of midi_upscale_7to16
Upscale7Calls == {[fn |-> "midi_upscale_7to16", value7 |-> v] : v \in 0..255}

\* a call of midi_upscale_7to16
Upscale7 ==
    /\ fcall.fn = "midi_upscale_7to16"
    /\ fres = Pending
    /\ fres' = [err |-> "ESP_OK", value |-> midi_upscale_7to16(fcall.value7)]
    /\ UNCHANGED <<parserVars, tripVars, routerVars, sessionVars, fcall>>

\* midi_downscale_16to7 called on the value midi_upscale_7to16 has returned
DownscaleUpscaled ==
    /\ Returned("midi_upscale_7to16")
    /\ fcall' = [fn |-> "downscale_upscaled", value7 |-> fcall.value7,
                 value16 |-> fres.value]
    /\ fres' = [err |-> "ESP_OK", value |-> midi_downscale_16to7(fres.value)]
    /\ UNCHANGED <<parserVars, tripVars, routerVars, sessionVars>>

\* a * b as the uint32_t multiplication gives it, i.e. modulo 2^32, for
\* a < 2^15 and b a word in two 16-bit halves
MulU32(a, b) ==
    LET lo_prod == a * b.lo
        hi_prod == a * b.hi
    IN  Word((hi_prod + lo_prod \div 65536) % 65536, lo_prod % 65536)

\* w / d in uint32_t, for a divisor d < 2^15
DivU32(w, d) ==
    LET r == w.hi % d
    IN  Word(w.hi \div d, (r * 65536 + w.lo) \div d)

\* w + 0x80000000 in uint32_t
AddHalfU32(w) == Word((w.hi + 32768) % 65536, w.lo)

midi_upscale_14to32(value14) ==
    IF value14 = 0 THEN Word(0, 0)
    ELSE IF value14 = 8192 THEN Word(32768, 0)
    ELSE IF value14 >= 16383 THEN Word(65535, 65535)
    ELSE IF value14 < 8192
         THEN DivU32(MulU32(value14, Word(32767, 65535)), 8191)
         ELSE AddHalfU32(DivU32(MulU32(value14 - 8192, Word(32767, 65535)), 8191))

\* every 14-bit argument of midi_upscale_14to32, and two above the range
Upscale14Calls ==
    {[fn |-> "midi_upscale_14to32", value14 |-> v] : v \in 0..16383 \cup {16384, 65535}}

\* a call of midi_upscale_14to32
Upscale14 ==
    /\ fcall.fn = "midi_upscale_14to32"
    /\ fres = Pending
    /\ fres' = [err |-> "ESP_OK", value |-> midi_upscale_14to32(fcall.value14)]
    /\ UNCHANGED <<parserVars, tripVars, routerVars, sessionVars, fcall>>

MIDI2_STATUS_NOTE_OFF == 128
MIDI2_STATUS_NOTE_ON == 144
MIDI2_STATUS_RPN == 32
MIDI2_STATUS_NRPN == 48
MIDI2_STATUS_CONTROL_CHANGE == 176
MIDI2_STATUS_RPN_CTRL == 32
MIDI2_STATUS_PER_NOTE_PITCH == 96

\* a MIDI 2.0 Channel Voice packet (two words) as ump_parser_parse_packet
\* gives it: status and channel in bits 23-16 of word 0, the note or index in
\* bits 15-8, a 16-bit value in the upper half of word 1
Midi2Voice(group, status, channel, index, value16) ==
    UmpStruct(<<Word(UMP_MT_MIDI2_CHANNEL_VOICE * 4096 + group * 256
                        + status + channel, index * 256),
                Word(value16, 0), Word(0, 0), Word(0, 0)>>,
              2, UMP_MT_MIDI2_CHANNEL_VOICE, group, 0)

\* packets handed to midi_translate_2to1: MIDI 2.0 Channel Voice of several
\* kinds, and one MIDI 1.0 Channel Voice packet (Message Type 0x2)
Translate2to1Calls ==
    {[fn |-> "midi_translate_2to1", packet |-> u] :
        u \in {Midi2Voice(0, status, channel, index, value16) :
                  status \in {MIDI2_STATUS_NOTE_OFF, MIDI2_STATUS_NOTE_ON,
                              MIDI2_STATUS_CONTROL_CHANGE, MIDI2_STATUS_RPN,
                              MIDI2_STATUS_NRPN, MIDI2_STATUS_RPN_CTRL,
                              MIDI2_STATUS_PER_NOTE_PITCH},
                  channel \in {0, 5, 15}, index \in {0, 60, 69, 127},
                  value16 \in {0, 32768, 65535}}
              \cup {UmpStruct(<<Word(UMP_MT_MIDI1_CHANNEL_VOICE * 4096 + 145, 15460),
                               Word(0, 0), Word(0, 0), Word(0, 0)>>,
                             1, UMP_MT_MIDI1_CHANNEL_VOICE, 0, 0)}}

\* a call of midi_translate_2to1
Translate2to1 ==
    /\ fcall.fn = "midi_translate_2to1"
    /\ fres = Pending
    /\ fres' = midi_translate_2to1(fcall.packet)
    /\ UNCHANGED <<parserVars, tripVars, routerVars, sessionVars, fcall>>

\* a midi_message_t as the parser fills it: the channel is the low nibble of
\* a channel status and 0 for a system status
Midi1Message(status, data1, data2) ==
    [status |-> status,
     channel |-> IF status < MIDI_STATUS_SYSEX_START THEN status % 16 ELSE 0,
     data1 |-> data1, data2 |-> data2,
     length |-> get_message_length(status)]

\* messages handed to midi_translate_1to2: Note Off, Note On, Control Change,
\* Program Change and Pitch Bend on two channels, and two real-time messages
Translate1to2Calls ==
    {[fn |-> "midi_translate_1to2", msg |-> Midi1Message(status, data1, data2)] :
        status \in {128, 133, 144, 149, 176, 181, 192, 224,
                    MIDI_STATUS_TIMING_CLOCK, MIDI_STATUS_ACTIVE_SENSING},
        data1 \in {0, 60, 127}, data2 \in {0, 1, 100, 127}}

\* Note On messages with every 7-bit velocity
NoteOnCalls ==
    {[fn |-> "midi_translate_1to2",
      msg |-> Midi1Message(MIDI_STATUS_NOTE_ON + channel, note, velocity)] :
        channel \in {0, 5, 15}, note \in {0, 60, 64, 127}, velocity \in 0..127}

\* a call of midi_translate_1to2
Translate1to2 ==
    /\ fcall.fn = "midi_translate_1to2"
    /\ fres = Pending
    /\ fres' = midi_translate_1to2(fcall.msg)
    /\ UNCHANGED <<parserVars, tripVars, routerVars, sessionVars, fcall>>

\* midi_translate_2to1 called on the packet midi_translate_1to2 has produced
TranslateBack ==
    /\ Returned("midi_translate_1to2")
    /\ fres.err = "ESP_OK"
    /\ fcall' = [fn |-> "translate_back", msg |-> fcall.msg, packet |-> fres.ump]
    /\ fres' = midi_translate_2to1(fres.ump)
    /\ UNCHANGED <<parserVars, tripVars, routerVars, sessionVars>>

\* the codec and translator functions keep no state of their own: a
\* behaviour starts with the arguments of one call, the call is made, and a
\* decode of its output may follow.  Parser and router stay as constructed.
PureInit ==
    /\ RouterIdle
    /\ SessionIdle
    /\ p = ParserInitState("NULL", 0)
    /\ msg = CHOOSE m \in StackGarbage : m.type = "CHANNEL"
    /\ mem = InitMem
    /\ complete = FALSE
    /\ op = "init"
    /\ lastByte = 0
    /\ fed = 0
    /\ sh = Result(p, msg, mem, complete)
    /\ run = RunIdle
    /\ sys = SysIdle
    /\ clr = ClrIdle
    /\ sx = SxIdle
    /\ discarded = {}
    /\ fres = Pending
    /\ \/ fcall \in DecodeCalls
       \/ fcall \in WifiCalls
       \/ fcall \in UsbCalls
       \/ fcall \in SerializeCalls
       \/ fcall \in BuildCalls
       \/ fcall \in Upscale7Calls
       \/ fcall \in Upscale14Calls
       \/ fcall \in Translate2to1Calls
       \/ fcall \in Translate1to2Calls
       \/ fcall \in NoteOnCalls

PureNext ==
    \/ Decode
    \/ WifiRx
    \/ UsbRx
    \/ Serialize
    \/ DecodeSerialized
    \/ Build
    \/ DecodeBuilt
    \/ Upscale7
    \/ DownscaleUpscaled
    \/ Upscale14
    \/ Translate2to1
    \/ Translate1to2
    \/ TranslateBack

PureSpec == PureInit /\ [][PureNext]_vars

\* the size the Message Type mandates (section 4.2 of the specification)
MandatedWords(mt) ==
    IF mt \in {0, 1, 2, 6, 7} THEN 1
    ELSE IF mt \in {3, 4, 8, 9, 10} THEN 2
    ELSE IF mt \in {11, 12} THEN 3
    ELSE 4

\* C21: for every word 0, ump_parser_parse_packet returns ESP_OK, sets
\* num_words to the size mandated for the Message Type, copies that many words
\* and no more (the later words of the packet stay as they were), and sets
\* message_type to bits 31-28 and group to bits 27-24 of word 0.
C21_DecodeSize ==
    (Returned("ump_parser_parse_packet") /\ fcall.words # NullWords
        /\ fcall.packet # NullUmp) =>
        LET w0 == fcall.words[1]
            n == MandatedWords(w0.hi \div 4096)
        IN  /\ fres.err = "ESP_OK"
            /\ fres.packet.num_words = n
            /\ \A i \in 1..UMP_MAX_WORDS :
                   fres.packet.words[i] = IF i <= n THEN fcall.words[i]
                                          ELSE fcall.packet.words[i]
            /\ fres.packet.message_type = w0.hi \div 4096
            /\ fres.packet.group = (w0.hi \div 256) % 16

\* a four-word packet (Message Type 0x5) was decoded into a packet that held
\* other words before
C21_Witness ==
    /\ Returned("ump_parser_parse_packet")
    /\ fcall.words # NullWords
    /\ fcall.packet = StaleUmp
    /\ fcall.words[1].hi \div 4096 = 5
    /\ fcall.words[4] # Word(0, 0)
    /\ fres.packet.num_words = 4

\* the sizes of the packets of a payload when each is as long as its Message
\* Type mandates; a packet cut short by the end of the payload ends the list
RECURSIVE MandatedSplit(_, _)
MandatedSplit(payload, offset) ==
    IF offset + 1 > Len(payload) THEN <<>>
    ELSE LET n == MandatedWords(payload[offset + 1].hi \div 4096)
         IN  IF offset + n > Len(payload) THEN <<>>
             ELSE <<n>> \o MandatedSplit(payload, offset + n)

\* C22: the receive paths of the network session and of USB give every UMP
\* the number of words its Message Type mandates, so a payload is cut into
\* packets at the boundaries the codec would use.
C22_WireSizes ==
    /\ Returned("handle_ump_payload") =>
          [i \in 1..Len(fres.packets) |-> fres.packets[i].num_words]
              = MandatedSplit(fcall.ump_data, 0)
    /\ (Returned("parse_usb_ump") /\ fres.err = "ESP_OK") =>
          fres.ump.num_words = MandatedWords(fcall.usb_data[1].hi \div 4096)

\* C23: decoding the words ump_message_serialize wrote for a valid packet
\* gives a packet equal to it; ump_message_serialize into a buffer of fewer
\* than num_words words fails with an error of its own, not the one for
\* invalid arguments, and leaves the buffer as it was.
C23_EncodeDecode ==
    /\ fcall.fn = "parse_serialized" =>
          fres.err = "ESP_OK" /\ fres.packet = fcall.original
    /\ Returned("ump_message_serialize") =>
          IF fcall.words_out_count >= fcall.packet.num_words
          THEN fres.err = "ESP_OK"
          ELSE /\ fres.err \notin {"ESP_OK", "ESP_ERR_INVALID_ARG"}
               /\ fres.words_out = fcall.words_out

\* C24: for group <= 15, channel <= 15 and note <= 127,
\* ump_build_midi2_note_on followed by ump_parser_parse_packet gives a two-word
\* MIDI 2.0 Channel Voice packet whose word 0 holds the group in bits 27-24,
\* the channel in bits 19-16 and the note in bits 15-8, and whose word 1 holds
\* the velocity in bits 31-16; for a larger group, channel or note the builder
\* returns ESP_ERR_INVALID_ARG and leaves the output packet as it was.
C24_BuildDecode ==
    /\ fcall.fn = "parse_built" =>
          /\ fres.err = "ESP_OK"
          /\ fres.packet.num_words = 2
          /\ fres.packet.message_type = UMP_MT_MIDI2_CHANNEL_VOICE
          /\ fres.packet.group = fcall.group
          /\ UMP_GET_MT(fres.packet.words[1]) = UMP_MT_MIDI2_CHANNEL_VOICE
          /\ UMP_GET_GROUP(fres.packet.words[1]) = fcall.group
          /\ UMP_GET_CHANNEL(fres.packet.words[1]) = fcall.channel
          /\ (fres.packet.words[1].lo \div 256) % 256 = fcall.note
          /\ fres.packet.words[2].hi = fcall.velocity16
    /\ (Returned("ump_build_midi2_note_on") /\ fcall.packet_out # NullUmp) =>
          IF fcall.group <= 15 /\ fcall.channel <= 15 /\ fcall.note <= 127
          THEN fres.err = "ESP_OK"
          ELSE /\ fres.err = "ESP_ERR_INVALID_ARG"
               /\ fres.packet = fcall.packet_out

\* a Note On built at the upper limits (group 15, channel 15, note 127,
\* velocity 65535) has been decoded
C24_Witness ==
    /\ fcall.fn = "parse_built"
    /\ fcall.group = 15
    /\ fcall.channel = 15
    /\ fcall.note = 127
    /\ fcall.velocity16 = 65535
    /\ fres.err = "ESP_OK"

\* the values the fixed points of the upscaling are to have
UpscaleFixedPoint(value7) ==
    CASE value7 = 0 -> 0
      [] value7 = 1 -> 520
      [] value7 = 63 -> 32767
      [] value7 = 64 -> 32768
      [] value7 = 65 -> 33288
      [] value7 = 126 -> 65015
      [] value7 = 127 -> 65535

\* C25: midi_upscale_7to16 returns 0, 520, 32767, 32768, 33288, 65015 and
\* 65535 for the arguments 0, 1, 63, 64, 65, 126 and 127.
C25_FixedPoints ==
    (Returned("midi_upscale_7to16") /\ fcall.value7 \in {0, 1, 63, 64, 65, 126, 127})
        => fres.value = UpscaleFixedPoint(fcall.value7)

\* C26: for every v in 0..127 midi_downscale_16to7(midi_upscale_7to16(v)) is
\* v again, and midi_upscale_7to16 returns 0 for 0, 32768 for 64 and 65535
\* for 127.
C26_DownUp ==
    /\ (fcall.fn = "downscale_upscaled" /\ fcall.value7 <= 127)
          => fres.value = fcall.value7
    /\ (Returned("midi_upscale_7to16") /\ fcall.value7 = 0) => fres.value = 0
    /\ (Returned("midi_upscale_7to16") /\ fcall.value7 = 64) => fres.value = 32768
    /\ (Returned("midi_upscale_7to16") /\ fcall.value7 = 127) => fres.value = 65535

\* 126 was upscaled to a value just below the maximum and downscaled again
C26_Witness ==
    /\ fcall.fn = "downscale_upscaled"
    /\ fcall.value7 = 126
    /\ fcall.value16 > 65000
    /\ fres.value = 126

\* floor(a * 0x7FFFFFFF / 8191) computed in three 16-bit limbs, so that
\* nothing wraps, for a <= 8191; the quotient fits 32 bits
ExactScale(a) ==
    LET lo_prod == a * 65535
        t == a * 32767 + lo_prod \div 65536
        limb0 == lo_prod % 65536
        limb1 == t % 65536
        limb2 == t \div 65536
        r2 == limb2 % 8191
        q1 == (r2 * 65536 + limb1) \div 8191
        r1 == (r2 * 65536 + limb1) % 8191
    IN  Word(q1, (r1 * 65536 + limb0) \div 8191)

\* the Min-Center-Max value of a 14-bit v
MinCenterMax14(v) ==
    IF v = 0 THEN Word(0, 0)
    ELSE IF v = 8192 THEN Word(32768, 0)
    ELSE IF v = 16383 THEN Word(65535, 65535)
    ELSE IF v < 8192 THEN ExactScale(v)
    ELSE AddHalfU32(ExactScale(v - 8192))

WordLeq(a, b) == a.hi < b.hi \/ (a.hi = b.hi /\ a.lo <= b.lo)

\* C27: for every 14-bit v midi_upscale_14to32 returns the Min-Center-Max
\* value (0 for 0, 0x80000000 for 8192, 0xFFFFFFFF for 16383, the exact
\* floor(v * 0x7FFFFFFF / 8191) below the centre and 0x80000000 plus the
\* exact floor((v - 8192) * 0x7FFFFFFF / 8191) above it), and so never returns
\* less than it does for v - 1.
C27_Upscale14 ==
    (Returned("midi_upscale_14to32") /\ fcall.value14 <= 16383) =>
        /\ fres.value = MinCenterMax14(fcall.value14)
        /\ fcall.value14 > 0 =>
              WordLeq(midi_upscale_14to32(fcall.value14 - 1), fres.value)

\* C28: whenever midi_translate_2to1 accepts a MIDI 2.0 Channel Voice packet,
\* the channel of the MIDI 1.0 message and the low nibble of its status byte
\* are the channel of the packet, bits 19-16 of word 0, whatever the note or
\* index byte holds.
C28_ChannelPreserved ==
    (Returned("midi_translate_2to1") /\ fres.err = "ESP_OK"
        /\ fcall.packet.message_type = UMP_MT_MIDI2_CHANNEL_VOICE) =>
        /\ fres.midi1.channel = UMP_GET_CHANNEL(fcall.packet.words[1])
        /\ fres.midi1.status % 16 = UMP_GET_CHANNEL(fcall.packet.words[1])

\* C29: midi_translate_2to1 returns ESP_ERR_NOT_SUPPORTED and gives no MIDI 1.0
\* message for a MIDI 2.0 Channel Voice packet whose status is per-note pitch
\* bend, a per-note controller or a registered controller.
C29_NoEquivalent ==
    (Returned("midi_translate_2to1")
        /\ fcall.packet.message_type = UMP_MT_MIDI2_CHANNEL_VOICE
        /\ StatusType(UMP_GET_STATUS_BYTE(fcall.packet.words[1]))
               \in {MIDI2_STATUS_PER_NOTE_PITCH, MIDI2_STATUS_RPN,
                    MIDI2_STATUS_NRPN, MIDI2_STATUS_RPN_CTRL}) =>
        /\ fres.err = "ESP_ERR_NOT_SUPPORTED"
        /\ fres.midi1 = NoMidi1

\* C30: midi_translate_1to2 turns every Note On and Note Off into a MIDI 2.0
\* Channel Voice packet of the same kind and channel with the velocity
\* upscaled, on the default group; translates every other Channel Voice
\* message; and turns every System Real-Time message into a one-word System
\* packet.  None of these gets ESP_ERR_NOT_SUPPORTED.
C30_Translate1to2 ==
    Returned("midi_translate_1to2") =>
        LET m == fcall.msg
            u == fres.ump
        IN  /\ StatusType(m.status) \in {MIDI_STATUS_NOTE_ON, MIDI_STATUS_NOTE_OFF} =>
                  /\ fres.err = "ESP_OK"
                  /\ u.message_type = UMP_MT_MIDI2_CHANNEL_VOICE
                  /\ u.group = 0
                  /\ UMP_GET_STATUS_BYTE(u.words[1]) = m.status
                  /\ u.words[2].hi = midi_upscale_7to16(m.data2)
            /\ (m.status >= MIDI_STATUS_NOTE_OFF /\ m.status < MIDI_STATUS_SYSEX_START) =>
                  /\ fres.err = "ESP_OK"
                  /\ u.message_type = UMP_MT_MIDI2_CHANNEL_VOICE
            /\ m.status >= MIDI_STATUS_TIMING_CLOCK =>
                  /\ fres.err = "ESP_OK"
                  /\ u.message_type = UMP_MT_SYSTEM
                  /\ u.num_words = 1

\* C31: midi_translate_1to2 turns every Note On (note and velocity up to 127)
\* into a MIDI 2.0 Channel Voice Note On whose 16-bit velocity is
\* midi_upscale_7to16 of the velocity, and midi_translate_2to1 of that packet
\* gives back the note and the velocity.
C31_NoteOnRoundTrip ==
    /\ (Returned("midi_translate_1to2")
           /\ StatusType(fcall.msg.status) = MIDI_STATUS_NOTE_ON) =>
          /\ fres.err = "ESP_OK"
          /\ fres.ump.message_type = UMP_MT_MIDI2_CHANNEL_VOICE
          /\ UMP_GET_MT(fres.ump.words[1]) = UMP_MT_MIDI2_CHANNEL_VOICE
          /\ StatusType(UMP_GET_STATUS_BYTE(fres.ump.words[1])) = MIDI2_STATUS_NOTE_ON
          /\ fres.ump.words[2].hi = midi_upscale_7to16(fcall.msg.data2)
    /\ fcall.fn = "translate_back" =>
          /\ fres.err = "ESP_OK"
          /\ fres.midi1.data1 = fcall.msg.data1
          /\ fres.midi1.data2 = fcall.msg.data2

\* a Note On with note 60 and velocity 126 on channel 5 went to MIDI 2.0 and
\* back
C31_Witness ==
    /\ fcall.fn = "translate_back"
    /\ fcall.msg.status = MIDI_STATUS_NOTE_ON + 5
    /\ fcall.msg.data1 = 60
    /\ fcall.msg.data2 = 126
    /\ fcall.packet.words[2].hi = 65014
    /\ fres.midi1.data2 = 126

\* how the three delivery counters move in a step
OnlyRouted(s, d) ==
    /\ stats'.packets_routed = [stats.packets_routed EXCEPT ![s][d] = @ + 1]
    /\ stats'.packets_dropped = stats.packets_dropped
    /\ stats'.routing_errors = stats.routing_errors

OnlyDropped(d) ==
    /\ stats'.packets_routed = stats.packets_routed
    /\ stats'.packets_dropped = [stats.packets_dropped EXCEPT ![d] = @ + 1]
    /\ stats'.routing_errors = stats.routing_errors

OnlyErrors ==
    /\ stats'.packets_routed = stats.packets_routed
    /\ stats'.packets_dropped = stats.packets_dropped
    /\ stats'.routing_errors = stats.routing_errors + 1

NoDeliveryCounter ==
    /\ stats'.packets_routed = stats.packets_routed
    /\ stats'.packets_dropped = stats.packets_dropped
    /\ stats'.routing_errors = stats.routing_errors

\* C32 as stated: for every destination the loop gets past the route and
\* loopback tests with, exactly one of the three counters grows by one:
\* packets_routed[s][d] when the callback was called and returned ESP_OK,
\* packets_dropped[d] when it failed, routing_errors when the translation
\* declined.
C32_ExactlyOneCounter ==
    [][(IsRouteDest /\ tx'.outcome \notin {"blocked", "loopback"}) =>
          \/ tx'.called /\ tx'.err = "ESP_OK" /\ OnlyRouted(packet.source, dest)
          \/ tx'.called /\ tx'.err # "ESP_OK" /\ OnlyDropped(dest)
          \/ ~tx'.called /\ tx'.outcome = "declined" /\ OnlyErrors
      ]_vars

\* C32 amended: at most one of the three counters changes per destination:
\* packets_routed[s][d] grows exactly when the callback was called and returned
\* ESP_OK, packets_dropped[d] exactly when it was called and failed,
\* routing_errors exactly when the translation declined (and then no callback
\* is called); a destination with no callback registered, a blocked route and
\* the source itself change none of them.
C32_Counters ==
    [][IsRouteDest =>
          IF tx'.called
          THEN IF tx'.err = "ESP_OK" THEN OnlyRouted(packet.source, dest)
               ELSE OnlyDropped(dest)
          ELSE IF tx'.outcome = "declined" THEN OnlyErrors
          ELSE NoDeliveryCounter
      ]_vars

\* one callback returned ESP_OK and another failed, and each was counted
C32_Witness ==
    /\ Len(txlog) = 2
    /\ tx.called
    /\ tx.err # "ESP_OK"
    /\ stats.packets_dropped[tx.dest] = 1
    /\ stats.packets_routed[txlog[1].source][txlog[1].dest] = 1

(***************************************************************************)
(* UartSpec: midi_uart_rx_task feeds the bytes of the UART to its parser   *)
(* (sysex_buffer inside the driver state) and hands every complete message *)
(* to uart_rx_callback, which copies the midi_message_t into a packet and  *)
(* puts it on the router queue; the task on the other end of the queue     *)
(* takes the packets one at a time and writes each out with                *)
(* midi_message_to_bytes.  out holds the bytes written for the SysEx       *)
(* packets, expect the bytes the buffer held when each was queued.         *)
(***************************************************************************)
UartBytes == {60, 100, 146, 240, 247, 248}

UartInit ==
    /\ RouterIdle
    /\ SessionIdle
    /\ PureIdle
    /\ p = ParserInitState("BUF", MaxSysexSize)
    /\ msg \in StackGarbage
    /\ mem = InitMem
    /\ complete = FALSE
    /\ op = "init"
    /\ lastByte = 0
    /\ fed = 0
    /\ sh = Result(p, msg, mem, complete)
    /\ run = RunIdle
    /\ sys = SysIdle
    /\ clr = ClrIdle
    /\ sx = SxIdle
    /\ discarded = {}

\* uart_rx_callback: the message is copied by value, its sysex_data pointer
\* with it
UartPacket(m) == [source |-> MIDI_TRANSPORT_UART, format |-> 0, midi1 |-> m]

\* one byte read in midi_uart_rx_task
UartRx ==
    \E b \in UartBytes :
        /\ Call(b)
        /\ IF complete'
           THEN LET r == QueueSend(packet_queue, UartPacket(msg'))
                IN  /\ packet_queue' = r.queue
                    /\ expect' = IF r.ok /\ msg'.type = "SYSTEM_EXCLUSIVE"
                                 THEN Append(expect, midi_message_to_bytes(msg', mem'))
                                 ELSE expect
           ELSE UNCHANGED <<packet_queue, expect>>
        /\ UNCHANGED <<sh, run, sys, clr, sx, discarded, out, pureVars, sessionVars,
                       initialized, config, stats, transport_tx_callbacks, rpc,
                       packet, merge_mode, dest, tx, txlog, rret, sent, snaps,
                       considered, sets, sends, regs>>

\* the packet at the head of the queue is taken and written out for its
\* destination
UartDeliver ==
    /\ packet_queue # <<>>
    /\ LET r == QueueReceive(packet_queue)
       IN  /\ packet_queue' = r.queue
           /\ out' = IF r.item.midi1.type = "SYSTEM_EXCLUSIVE"
                     THEN Append(out, midi_message_to_bytes(r.item.midi1, mem))
                     ELSE out
    /\ UNCHANGED <<parserVars, expect, pureVars, sessionVars,
                   initialized, config, stats, transport_tx_callbacks, rpc,
                   packet, merge_mode, dest, tx, txlog, rret, sent, snaps,
                   considered, sets, sends, regs>>

UartNext == UartRx \/ UartDeliver

UartSpec == UartInit /\ [][UartNext]_vars

\* C33: the bytes written out for a queued SysEx packet are the bytes the
\* parser had collected when the message was completed, whatever arrived on
\* the UART between the queueing and the delivery.
C33_SysexNotShared ==
    /\ Len(out) <= Len(expect)
    /\ \A i \in 1..Len(out) : out[i] = expect[i]

\* the class tag section 3 gives a status byte
SpecClassTag(status) ==
    IF SpecChannelStatus(status) THEN "CHANNEL"
    ELSE IF SpecSystemCommon(status) THEN "SYSTEM_COMMON"
    ELSE IF SpecRealTime(status) THEN "SYSTEM_REALTIME"
    ELSE IF status = MIDI_STATUS_SYSEX_START THEN "SYSTEM_EXCLUSIVE"
    ELSE "UNKNOWN"

\* C34: a message reported complete whose status byte is a channel, System
\* Common, System Real-Time or SysEx status carries the class tag of that
\* status byte, the caller handing the same midi_message_t to every call.
C34_ClassTag ==
    (op = "feed" /\ complete /\ SpecClassTag(msg.status) # "UNKNOWN")
        => msg.type = SpecClassTag(msg.status)

\* a midi_router_init call on a router that is initialised: a step that is
\* no send, registration, route setting or step of the router task and
\* leaves ESP_ERR_INVALID_STATE as the last result
IsSecondInit ==
    /\ initialized
    /\ rret' = "ESP_ERR_INVALID_STATE"
    /\ sends' = sends /\ regs' = regs /\ sets' = sets
    /\ ~IsDequeue
    /\ ~IsRouteDest

\* C35: the callback registered for a transport changes only by a
\* registration, before or after midi_router_init; the router task calls the
\* callback that is registered for the destination; midi_router_init on an
\* initialised router changes nothing of the router.
C35_CallbackKept ==
    [][/\ regs' = regs => transport_tx_callbacks' = transport_tx_callbacks
       /\ (IsRouteDest /\ tx'.called) => tx'.cb = transport_tx_callbacks[dest]
       /\ IsSecondInit =>
             UNCHANGED <<initialized, config, stats, packet_queue,
                         transport_tx_callbacks>>
      ]_vars

(***************************************************************************)
(* SourceSpec: RouterSpec with a caller that may also hand midi_router_send *)
(* a packet whose source is MIDI_TRANSPORT_COUNT, one past the last        *)
(* transport.  An array indexed with that source is read or written beyond *)
(* its end, which is undefined: the read gives either answer, the          *)
(* increment lands in the word after the array or changes nothing the      *)
(* router looks at.                                                        *)
(***************************************************************************)
OutOfRangePacket == Midi1Packet(MIDI_TRANSPORT_COUNT, 146, 60, 100, 3)

\* packets_dropped[MIDI_TRANSPORT_COUNT]++ : the word after packets_dropped
\* is packets_filtered[0]
StrayDropped(st) == {st, [st EXCEPT !.packets_filtered[0] = @ + 1]}

\* packets_filtered[MIDI_TRANSPORT_COUNT]++ : the word after packets_filtered
\* is translations_1to2
StrayFiltered(st) == {st, [st EXCEPT !.translations_1to2 = @ + 1]}

\* midi_router_send, any source
SendAny ==
    \E pk \in SendPackets \cup {OutOfRangePacket} :
        /\ sends + regs + sets < MaxCalls
        /\ sends' = sends + 1
        /\ sent' = [pk EXCEPT !.seq = sends + 1]
        /\ IF ~initialized
           THEN /\ rret' = "ESP_ERR_INVALID_STATE"
                /\ UNCHANGED <<packet_queue, stats>>
           ELSE LET r == QueueSend(packet_queue, sent')
                IN  IF ~r.ok
                    THEN /\ rret' = "ESP_ERR_NO_MEM"
                         /\ stats' \in IF pk.source \in Transports
                                       THEN {[stats EXCEPT !.packets_dropped[pk.source] = @ + 1]}
                                       ELSE StrayDropped(stats)
                         /\ packet_queue' = r.queue
                    ELSE /\ rret' = "ESP_OK"
                         /\ packet_queue' = r.queue
                         /\ UNCHANGED stats
        /\ UNCHANGED <<initialized, config, transport_tx_callbacks, rpc, packet,
                       merge_mode, dest, tx, txlog, snaps, considered, sets, regs,
                       parserVars, tripVars, pureVars, sessionVars>>

\* midi_router_task taking a packet whose source is a transport
DequeueInRange ==
    /\ packet_queue # <<>>
    /\ Head(packet_queue).source \in Transports
    /\ Dequeue

\* midi_router_task taking a packet whose source is past the arrays:
\* input_filters[src] is read beyond the array, so the packet is filtered
\* (and packets_filtered[src] incremented beyond the array) or not, and then
\* routing_matrix[src][dest] is read beyond the matrix for every destination;
\* the pass is one step and hands the packet to no callback
DequeueOutOfRange ==
    /\ rpc = "wait"
    /\ packet_queue # <<>>
    /\ Head(packet_queue).source \notin Transports
    /\ packet' = QueueReceive(packet_queue).item
    /\ packet_queue' = QueueReceive(packet_queue).queue
    /\ tx' = [NoTx EXCEPT !.outcome = "out_of_range"]
    /\ snaps' = {config}
    /\ considered' = {}
    /\ stats' \in StrayFiltered(stats)
    /\ UNCHANGED <<rpc, merge_mode, dest, initialized, config,
                   transport_tx_callbacks, txlog, rret, sent, sets, sends, regs,
                   parserVars, tripVars, pureVars, sessionVars>>

SourceNext ==
    \/ RouterInit
    \/ RegisterTx
    \/ SendAny
    \/ DequeueInRange
    \/ DequeueOutOfRange
    \/ RouteDest

SourceSpec == RouterStart /\ [][SourceNext]_vars

\* C36: midi_router_send returns an error and touches neither the queue nor
\* the statistics when the source of the packet is no transport id (and
\* ESP_ERR_INVALID_STATE when the router is not initialised), so the router
\* task never indexes its arrays with a source outside 0..N-1.
C36_SourceChecked ==
    [][/\ (sends' = sends + 1 /\ sent'.source \notin Transports) =>
             /\ rret' \in {"ESP_ERR_INVALID_ARG", "ESP_ERR_INVALID_STATE"}
             /\ packet_queue' = packet_queue
             /\ stats' = stats
       /\ (sends' = sends + 1 /\ ~initialized) =>
             /\ rret' = "ESP_ERR_INVALID_STATE"
             /\ packet_queue' = packet_queue
             /\ stats' = stats
       /\ tx'.outcome # "out_of_range"
      ]_vars

\* C37: whenever midi_translate_2to1 accepts a MIDI 2.0 Channel Voice packet,
\* the upper nibble of the MIDI 1.0 status byte is the upper nibble of the
\* status of the packet (bits 23-20 of word 0): a Note Off stays a Note Off and
\* a control change does not become a note.
C37_KindKept ==
    (Returned("midi_translate_2to1") /\ fres.err = "ESP_OK"
        /\ fcall.packet.message_type = UMP_MT_MIDI2_CHANNEL_VOICE) =>
        fres.midi1.status \div 16 =
            (fcall.packet.words[1].hi \div 16) % 16

(***************************************************************************)
(* SessionSpec: the network session of midi_wifi.  midi_wifi_rx_task takes  *)
(* one datagram at a time and hands it to midi_wifi_session_handle_packet; *)
(* midi_wifi_keepalive_task calls midi_wifi_session_send_keepalive.  What a *)
(* handler does while it holds peers_mutex is one step; what it does after *)
(* giving the mutex back (the acknowledgment and conn_callback of a session *)
(* start, each rx_callback of a payload) is a step of its own, and the      *)
(* keepalive task may run in between.  The local pointer peer of a handler *)
(* is the slot number it points at.                                        *)
(***************************************************************************)
MaxDatagrams == 4
MaxLapses == 1

MIDI_WIFI_PKT_UMP == 0
MIDI_WIFI_PKT_SESSION_START == 1
MIDI_WIFI_PKT_SESSION_ACK == 2
MIDI_WIFI_PKT_SESSION_END == 3
MIDI_WIFI_PKT_KEEPALIVE == 4
MIDI_WIFI_PKT_RETRANSMIT_REQ == 5
MIDI_WIFI_SESSION_TIMEOUT == 5000

\* the senders of datagrams: two hosts, one of them with two ports
Senders ==
    {[ip |-> "192.168.4.2", port |-> 5004], [ip |-> "192.168.4.2", port |-> 5005],
     [ip |-> "192.168.4.3", port |-> 5004]}

\* a datagram: its first byte, its length in bytes and, after the five bytes
\* of header, whole UMP words
Datagram(packet_type, ump_data) ==
    [packet_type |-> packet_type, len |-> 5 + 4 * Len(ump_data),
     ump_data |-> ump_data]

\* the datagrams that arrive: every packet type with its header, payloads of
\* no, one and two packets, and a payload datagram cut after its first byte
Datagrams ==
    {Datagram(t, <<>>) : t \in {MIDI_WIFI_PKT_SESSION_START, MIDI_WIFI_PKT_SESSION_ACK,
                                MIDI_WIFI_PKT_SESSION_END, MIDI_WIFI_PKT_KEEPALIVE,
                                MIDI_WIFI_PKT_RETRANSMIT_REQ, MIDI_WIFI_PKT_UMP}}
    \cup {Datagram(MIDI_WIFI_PKT_UMP, <<WireNote>>),
          Datagram(MIDI_WIFI_PKT_UMP, <<WireNote, WireNote>>),
          [packet_type |-> MIDI_WIFI_PKT_UMP, len |-> 1, ump_data |-> <<>>]}

\* the slot of the first active peer with this address, 0 for NULL
find_peer(tbl, n, ip_addr, port) ==
    LET found == {i \in 1..n : tbl[i].ip_addr = ip_addr /\ tbl[i].port = port}
    IN  IF found = {} THEN 0 ELSE CHOOSE i \in found : \A j \in found : i <= j

\* session_id is the uint8_t copy of the incremented count
add_peer(tbl, n, ip_addr, port, time_ms) ==
    IF n >= CONFIG_MIDI_WIFI_MAX_CLIENTS
    THEN [peer |-> 0, peers |-> tbl, n |-> n]
    ELSE [peer |-> n + 1,
          peers |-> [tbl EXCEPT ![n + 1] =
                        [ZeroPeer EXCEPT !.ip_addr = ip_addr, !.port = port,
                                         !.session_id = (n + 1) % 256,
                                         !.state = "CONNECTING",
                                         !.last_rx_time_ms = time_ms]],
          n |-> n + 1]

\* the count goes down and nothing moves
remove_peer_NoShift(tbl, n, peer) ==
    [peers |-> tbl, n |-> n - 1]

\* memmove of the slots after peer one slot down; the last active slot keeps
\* its content
remove_peer(tbl, n, peer) ==
    [peers |-> [i \in 1..CONFIG_MIDI_WIFI_MAX_CLIENTS |->
                   IF i >= peer /\ i < n THEN tbl[i + 1] ELSE tbl[i]],
     n |-> n - 1]

\* the loop of midi_wifi_session_send_keepalive from slot i on; calls are the
\* records handed to conn_callback(peer, false)
RECURSIVE KeepaliveLoop(_, _, _, _, _)
KeepaliveLoop(tbl, n, i, current_time_ms, calls) ==
    IF i > n THEN [peers |-> tbl, n |-> n, calls |-> calls]
    ELSE IF tbl[i].state # "CONNECTED"
    THEN KeepaliveLoop(tbl, n, i + 1, current_time_ms, calls)
    ELSE IF current_time_ms - tbl[i].last_rx_time_ms > MIDI_WIFI_SESSION_TIMEOUT
    THEN LET r == remove_peer(tbl, n, i)
         IN  KeepaliveLoop(r.peers, r.n, i, current_time_ms, Append(calls, tbl[i]))
    ELSE KeepaliveLoop(tbl, n, i + 1, current_time_ms, calls)

\* handle_session_start up to xSemaphoreGive
SessionStartLocked(s) ==
    LET found == find_peer(peers, num_active_peers, s.ip, s.port)
        a == IF found = 0
             THEN add_peer(peers, num_active_peers, s.ip, s.port, clock_ms)
             ELSE [peer |-> found, peers |-> peers, n |-> num_active_peers]
    IN  IF a.peer = 0
        THEN /\ rx_ret' = "ESP_ERR_NO_MEM"
             /\ UNCHANGED <<peers, num_active_peers, rx_pc, rx_peer, rx_left, rx_cb>>
        ELSE /\ peers' = [a.peers EXCEPT ![a.peer].state = "CONNECTED",
                                         ![a.peer].last_rx_time_ms = clock_ms]
             /\ num_active_peers' = a.n
             /\ rx_peer' = a.peer
             /\ rx_pc' = "notify"
             /\ rx_ret' = "pending"
             /\ UNCHANGED <<rx_left, rx_cb>>

\* handle_session_end
SessionEnd(s) ==
    LET found == find_peer(peers, num_active_peers, s.ip, s.port)
    IN  /\ rx_ret' = "ESP_OK"
        /\ IF found # 0
           THEN LET r == remove_peer(peers, num_active_peers, found)
                IN  /\ rx_cb' = [kind |-> "conn", peer |-> peers[found],
                                 connected |-> FALSE, sender |-> s]
                    /\ peers' = r.peers
                    /\ num_active_peers' = r.n
           ELSE UNCHANGED <<peers, num_active_peers, rx_cb>>
        /\ UNCHANGED <<rx_pc, rx_peer, rx_left>>

\* handle_keepalive
KeepaliveReceived(s) ==
    LET found == find_peer(peers, num_active_peers, s.ip, s.port)
    IN  /\ rx_ret' = "ESP_OK"
        /\ peers' = IF found # 0
                    THEN [peers EXCEPT ![found].last_rx_time_ms = clock_ms]
                    ELSE peers
        /\ UNCHANGED <<num_active_peers, rx_pc, rx_peer, rx_left, rx_cb>>

\* handle_ump_payload up to xSemaphoreGive, and its return when the datagram
\* holds no whole packet
UmpPayloadLocked(s, d) ==
    LET found == find_peer(peers, num_active_peers, s.ip, s.port)
    IN  IF d.len < 5
        THEN /\ rx_ret' = "ESP_ERR_INVALID_SIZE"
             /\ UNCHANGED <<peers, num_active_peers, rx_pc, rx_peer, rx_left, rx_cb>>
        ELSE IF found = 0 \/ peers[found].state # "CONNECTED"
        THEN /\ rx_ret' = "ESP_ERR_INVALID_STATE"
             /\ UNCHANGED <<peers, num_active_peers, rx_pc, rx_peer, rx_left, rx_cb>>
        ELSE /\ peers' = [peers EXCEPT ![found].last_rx_time_ms = clock_ms,
                                       ![found].packets_rx = @ + 1]
             /\ rx_peer' = found
             /\ rx_left' = handle_ump_payload(d.ump_data, 0)
             /\ rx_pc' = IF rx_left' = <<>> THEN "recv" ELSE "deliver"
             /\ rx_ret' = IF rx_left' = <<>> THEN "ESP_OK" ELSE "pending"
             /\ UNCHANGED <<num_active_peers, rx_cb>>

\* midi_wifi_rx_task receives a datagram and midi_wifi_session_handle_packet
\* dispatches it
Receive ==
    /\ rx_pc = "recv"
    /\ packets_rx_total < MaxDatagrams
    /\ \E s \in Senders, d \in Datagrams :
        /\ rx_src' = s
        /\ rx_data' = d
        /\ packets_rx_total' = packets_rx_total + 1
        /\ CASE d.packet_type = MIDI_WIFI_PKT_SESSION_START -> SessionStartLocked(s)
             [] d.packet_type = MIDI_WIFI_PKT_SESSION_END -> SessionEnd(s)
             [] d.packet_type = MIDI_WIFI_PKT_KEEPALIVE -> KeepaliveReceived(s)
             [] d.packet_type = MIDI_WIFI_PKT_UMP -> UmpPayloadLocked(s, d)
             [] d.packet_type = MIDI_WIFI_PKT_RETRANSMIT_REQ ->
                    /\ rx_ret' = "ESP_OK"
                    /\ UNCHANGED <<peers, num_active_peers, rx_pc, rx_peer,
                                   rx_left, rx_cb>>
             [] OTHER ->
                    /\ rx_ret' = "ESP_ERR_NOT_SUPPORTED"
                    /\ UNCHANGED <<peers, num_active_peers, rx_pc, rx_peer,
                                   rx_left, rx_cb>>
    /\ UNCHANGED <<clock_ms, ka_cb, parserVars, tripVars, routerVars, pureVars>>

\* handle_session_start after xSemaphoreGive: send_session_ack with
\* peer->session_id and conn_callback(peer, true), both through the pointer
\* taken under the mutex
SessionStartNotify ==
    /\ rx_pc = "notify"
    /\ rx_cb' = [kind |-> "conn", peer |-> peers[rx_peer], connected |-> TRUE,
                 sender |-> rx_src]
    /\ rx_ret' = "ESP_OK"
    /\ rx_pc' = "recv"
    /\ UNCHANGED <<peers, num_active_peers, packets_rx_total, clock_ms, rx_src, rx_data,
                   rx_peer, rx_left, ka_cb, parserVars, tripVars, routerVars,
                   pureVars>>

\* one turn of the loop of handle_ump_payload: rx_callback(&ump, peer, ctx)
\* through the pointer taken under the mutex
Deliver ==
    /\ rx_pc = "deliver"
    /\ rx_cb' = [kind |-> "rx", peer |-> peers[rx_peer], ump |-> Head(rx_left),
                 sender |-> rx_src]
    /\ rx_left' = Tail(rx_left)
    /\ rx_pc' = IF rx_left' = <<>> THEN "recv" ELSE "deliver"
    /\ rx_ret' = IF rx_left' = <<>> THEN "ESP_OK" ELSE "pending"
    /\ UNCHANGED <<peers, num_active_peers, packets_rx_total, clock_ms, rx_src, rx_data,
                   rx_peer, ka_cb, parserVars, tripVars, routerVars, pureVars>>

\* midi_wifi_keepalive_task wakes up and, with peers in the table, runs
\* midi_wifi_session_send_keepalive, all of it under peers_mutex
KeepaliveSweep ==
    /\ num_active_peers > 0
    /\ LET r == KeepaliveLoop(peers, num_active_peers, 1, clock_ms, <<>>)
       IN  /\ peers' = r.peers
           /\ num_active_peers' = r.n
           /\ ka_cb' = r.calls
    /\ UNCHANGED <<packets_rx_total, clock_ms, rx_pc, rx_src, rx_data, rx_peer, rx_left,
                   rx_ret, rx_cb, parserVars, tripVars, routerVars, pureVars>>

\* time passes.  Only the comparison with MIDI_WIFI_SESSION_TIMEOUT reads the
\* clock, so the clock moves in lapses just longer than the timeout.
Lapse ==
    /\ clock_ms < MaxLapses * (MIDI_WIFI_SESSION_TIMEOUT + 1)
    /\ clock_ms' = clock_ms + MIDI_WIFI_SESSION_TIMEOUT + 1
    /\ UNCHANGED <<peers, num_active_peers, packets_rx_total, rx_pc, rx_src, rx_data,
                   rx_peer, rx_left, rx_ret, rx_cb, ka_cb, parserVars, tripVars,
                   routerVars, pureVars>>

SessionNext ==
    \/ Receive
    \/ SessionStartNotify
    \/ Deliver
    \/ KeepaliveSweep
    \/ Lapse

SessionSpec == RouterStart /\ [][SessionNext]_vars

\* the sender has a record in the active part of the table, in state CONNECTED
Connected(s) ==
    \E i \in 1..num_active_peers :
        /\ peers[i].ip_addr = s.ip
        /\ peers[i].port = s.port
        /\ peers[i].state = "CONNECTED"

\* the step is the receipt of a datagram
IsReceive == rx_pc = "recv" /\ packets_rx_total' = packets_rx_total + 1

\* the step is a keepalive sweep that removed a peer
IsTimeout ==
    /\ peers' # peers \/ num_active_peers' # num_active_peers
    /\ UNCHANGED <<packets_rx_total, clock_ms, rx_pc, rx_left>>

\* C38: a UMP payload datagram (header of five bytes present) whose sender is
\* not in the peer table in state CONNECTED when it is received returns
\* ESP_ERR_INVALID_STATE and leads to no rx_callback; packets are handed to
\* rx_callback only for a datagram that was accepted.  A sender becomes
\* connected only by a SessionStart of its own that is accepted, and is not
\* connected after its SessionEnd or after the keepalive sweep reported its
\* timeout.
C38_ConnectedOnly ==
    [][/\ (IsReceive /\ rx_data'.packet_type = MIDI_WIFI_PKT_UMP
              /\ rx_data'.len >= 5 /\ ~Connected(rx_src')) =>
             /\ rx_ret' = "ESP_ERR_INVALID_STATE"
             /\ rx_pc' = "recv"
             /\ UNCHANGED <<rx_cb, rx_left, peers, num_active_peers>>
       /\ (IsReceive /\ rx_pc' = "deliver") =>
             /\ rx_data'.packet_type = MIDI_WIFI_PKT_UMP
             /\ Connected(rx_src')
       /\ (rx_cb' # rx_cb /\ rx_cb'.kind = "rx") => rx_pc = "deliver"
       /\ \A s \in Senders :
             (~Connected(s) /\ Connected(s)') =>
                 /\ IsReceive
                 /\ rx_src' = s
                 /\ rx_data'.packet_type = MIDI_WIFI_PKT_SESSION_START
                 /\ rx_pc' = "notify"
       /\ (IsReceive /\ rx_data'.packet_type = MIDI_WIFI_PKT_SESSION_END) =>
             ~Connected(rx_src)'
       /\ IsTimeout =>
             \A i \in 1..Len(ka_cb') :
                 ~Connected([ip |-> ka_cb[i].ip_addr, port |-> ka_cb[i].port])'
      ]_vars

\* a payload datagram was turned down with ESP_ERR_INVALID_STATE, its sender
\* being one that had a session and lost it by timeout
C38_Witness ==
    /\ rx_pc = "recv"
    /\ rx_data.packet_type = MIDI_WIFI_PKT_UMP
    /\ rx_data.len > 5
    /\ rx_ret = "ESP_ERR_INVALID_STATE"
    /\ \E i \in 1..Len(ka_cb) :
          /\ ka_cb[i].ip_addr = rx_src.ip
          /\ ka_cb[i].port = rx_src.port
    /\ ~Connected(rx_src)

\* the step hands a peer record to conn_callback or rx_callback after the
\* handler gave the mutex back
IsLateCallback ==
    /\ rx_pc \in {"notify", "deliver"}
    /\ rx_pc' # rx_pc \/ rx_left' # rx_left

\* C39: whenever the receive task hands a peer record to conn_callback or
\* rx_callback, the pointer it uses is a slot of the active table and the
\* record has the ip and port of the sender of the datagram in work, whatever
\* the keepalive task did in between; every record any callback gets has the
\* address of the sender, and num_active_peers never exceeds the table size.
C39_PeerIsSender ==
    [][/\ IsLateCallback =>
             /\ rx_peer <= num_active_peers
             /\ rx_cb'.peer.ip_addr = rx_src.ip
             /\ rx_cb'.peer.port = rx_src.port
       /\ (rx_cb' # rx_cb) =>
             /\ rx_cb'.peer.ip_addr = rx_cb'.sender.ip
             /\ rx_cb'.peer.port = rx_cb'.sender.port
       /\ num_active_peers' <= CONFIG_MIDI_WIFI_MAX_CLIENTS
      ]_vars

\* C40: the peers in the active part of the table have session ids different
\* from each other.
C40_SessionIdsDistinct ==
    \A i, j \in 1..num_active_peers :
        i # j => peers[i].session_id # peers[j].session_id

====
